---------------------------- MODULE Spec2Model ----------------------------
(***************************************************************************)
(* TalentScout AI: the interview session as driven by                      *)
(*   - core/conversation_engine.py  (ConversationEngine, one               *)
(*     ConversationContext per session), and                               *)
(*   - components/advanced_chat.py  (the chat UI working on the            *)
(*     framework's session_state), and the HTTP API of api/routes.py with  *)
(*     the session table of database/crud.py and the process-wide          *)
(*     AdvancedAIManager of core/ai_manager.py, and                        *)
(*   - the service objects of utils/rate_limiter.py,                       *)
(*     core/security_manager.py and models/llm_providers.py.               *)
(* Texts are sequences of chunks: a user's text is a sequence of one-      *)
(* character strings, a reply is the concatenation of the template's       *)
(* literal chunks and the interpolated values.                             *)
(* Of the chat UI's controls the model has the chat box, the start button  *)
(* and "Next Stage"; the other buttons only append a message.              *)
(* A local of the code that is read more than once is bound to its value   *)
(* with  CHOOSE r \in { e : local \in { value } } : TRUE,  which is  e  with *)
(* the local's value in it; a chain of assignments is the chain of such    *)
(* images, innermost first.                                                *)
(***************************************************************************)
EXTENDS Integers, Sequences, FiniteSets, TLC

VARIABLES
    driver,           \* which front end runs: "engine", "chat" or "api"
    context,          \* the session's ConversationContext object
    updated_context,  \* what the last process_user_input call returned as context
    session_state,    \* the chat UI's st.session_state
    reply,            \* the reply of the last operation (<< >>: none)
    raised,           \* the last operation raised to its caller
    last_call,        \* the last operation and its inputs
    now,              \* the clock: ticks for the API, seconds for the services
    interview_sessions, \* the interview_sessions table, by session_id
    question_history, \* advanced_ai_manager.question_history
    http_request,     \* the session_id and context of the last API request
    http_response,    \* the last HTTP response
    created,          \* the session_ids that session creation has returned
    limiters,         \* api_rate_limiter.limiters, by API name
    rate_limit_data,  \* security_manager.rate_limit_data, by key
    security_events,  \* security_manager.security_events
    active_sessions,  \* security_manager.active_sessions, by token
    llm_manager,      \* llm_manager: providers, primary_provider, fallback_order
    service_call,     \* the last call of a service object, with what it returned
    service_log       \* what the service calls have granted, allowed and issued

servicevars == << limiters, rate_limit_data, security_events, active_sessions,
                  llm_manager, service_call, service_log >>

frontvars == << context, updated_context, session_state, reply, raised, last_call,
                interview_sessions, question_history, http_request,
                http_response, created >>

apivars == << now, interview_sessions, question_history, http_request,
              http_response, created >>

vars == << driver, context, updated_context, session_state, reply, raised,
           last_call, now, interview_sessions, question_history, http_request,
           http_response, created, limiters, rate_limit_data, security_events,
           active_sessions, llm_manager, service_call, service_log >>

(***************************************************************************)
(* Bounds of the model.                                                    *)
(***************************************************************************)
MaxHistory == 14

MaxContextHistory == 7

\* The clock stops after MaxNow ticks; a second has TicksPerSecond of them.
MaxNow == 3

TicksPerSecond == 2

MaxSessions == 2

MaxQuestionHistory == 1

\* The longest conversation of a session followed through its assessment
\* stages.
MaxAssessmentHistory == 21

\* The rate limiters: the calls a limiter grants before it is full (the
\* program's 30, 20 and 100, scaled down), the seconds between two readings
\* of the clock, the last reading, and the calls granted in one behaviour.
GroqMaxCalls == 1

OpenAIMaxCalls == 1

GeneralMaxCalls == 2

LimiterStep == 30

MaxLimiterNow == 120

MaxGranted == 4

\* The security manager's rate limits: the requests a window admits (the
\* program's 30, 100 and 5, scaled down), the clock's step and last reading.
MessageMaxRequests == 1

ApiMaxRequests == 2

LoginMaxRequests == 2

SecurityStep == 60

MaxSecurityNow == 900

\* The session tokens: the tokens issued in one behaviour, the validations
\* one token passes, the clock's step and last reading (26 hours).
MaxTokens == 1

MaxRequestCount == 13

SessionStep == 7200

MaxSessionNow == 93600

(***************************************************************************)
(* Strings, as Python computes them.                                       *)
(***************************************************************************)
LowerAlpha ==
    <<"a", "b", "c", "d", "e", "f", "g", "h", "i", "j", "k", "l", "m",
      "n", "o", "p", "q", "r", "s", "t", "u", "v", "w", "x", "y", "z">>

UpperAlpha ==
    <<"A", "B", "C", "D", "E", "F", "G", "H", "I", "J", "K", "L", "M",
      "N", "O", "P", "Q", "R", "S", "T", "U", "V", "W", "X", "Y", "Z">>

Digits == {"0", "1", "2", "3", "4", "5", "6", "7", "8", "9"}

Range(s) == { s[i] : i \in DOMAIN s }

IsLower(c) == c \in Range(LowerAlpha)

IsUpper(c) == c \in Range(UpperAlpha)

IsCased(c) == IsLower(c) \/ IsUpper(c)

ToLower(c) ==
    IF IsUpper(c)
    THEN LowerAlpha[CHOOSE i \in DOMAIN UpperAlpha : UpperAlpha[i] = c]
    ELSE c

ToUpper(c) ==
    IF IsLower(c)
    THEN UpperAlpha[CHOOSE i \in DOMAIN LowerAlpha : LowerAlpha[i] = c]
    ELSE c

\* str.lower()
Lower(s) == [i \in DOMAIN s |-> ToLower(s[i])]

\* str.title(): a cased character is upper-cased when the character before
\* it is not cased, and lower-cased otherwise.
Title(s) ==
    [i \in DOMAIN s |->
        IF i = 1 \/ ~IsCased(s[i - 1]) THEN ToUpper(s[i]) ELSE ToLower(s[i])]

IsSpace(c) == c = " "

\* str.strip()
Strip(s) ==
    LET keep == { i \in DOMAIN s : ~IsSpace(s[i]) }
    IN  IF keep = {} THEN << >>
        ELSE LET lo == CHOOSE i \in keep : \A j \in keep : i <= j
                 hi == CHOOSE i \in keep : \A j \in keep : j <= i
             IN  SubSeq(s, lo, hi)

\* pat in s
Contains(s, pat) ==
    \E i \in 1..(Len(s) - Len(pat) + 1) : SubSeq(s, i, i + Len(pat) - 1) = pat

\* str.isdigit()
IsDigit(s) == Len(s) > 0 /\ \A i \in DOMAIN s : s[i] \in Digits

\* len(s.split()): the number of maximal runs of non-space characters
WordCount(s) ==
    Cardinality({ i \in DOMAIN s : ~IsSpace(s[i]) /\ (i = 1 \/ IsSpace(s[i - 1])) })

\* s.split(",")
RECURSIVE SplitComma(_)
SplitComma(s) ==
    IF \A i \in DOMAIN s : s[i] # ","
    THEN << s >>
    ELSE LET k == CHOOSE i \in DOMAIN s :
                      s[i] = "," /\ \A j \in 1..(i - 1) : s[j] # ","
         IN  << SubSeq(s, 1, k - 1) >> \o SplitComma(SubSeq(s, k + 1, Len(s)))

\* [f(x) for x in xs if x.strip()], with f applied to the stripped piece
RECURSIVE StrippedNonEmpty(_)
StrippedNonEmpty(xs) ==
    IF xs = << >> THEN << >>
    ELSE IF Strip(Head(xs)) = << >>
         THEN StrippedNonEmpty(Tail(xs))
         ELSE << Strip(Head(xs)) >> \o StrippedNonEmpty(Tail(xs))

\* ', '.join(xs)
RECURSIVE JoinComma(_)
JoinComma(xs) ==
    IF xs = << >> THEN << >>
    ELSE IF Len(xs) = 1 THEN Head(xs)
         ELSE Head(xs) \o << ", " >> \o JoinComma(Tail(xs))

\* dict.get(key, default)
Get(d, key, default) == IF key \in DOMAIN d THEN d[key] ELSE default

\* d[key] = value
Put(d, key, value) ==
    [k \in (DOMAIN d) \cup {key} |-> IF k = key THEN value ELSE d[k]]

EmptyDict == [k \in {} |-> << >>]

(***************************************************************************)
(* The texts a user submits.                                               *)
(***************************************************************************)
UserInputs ==
    { << >>,
      << " " >>,
      <<"a", "l">>,
      <<"a", "@", "b", ".", "c">>,
      <<"p", "y", ",", "g", "o">>,
      << "," >>,
      <<"s", "k", "i", "p">> }

\* The validation without the strip.
IsBlank_unstripped(s) == s = << >>

\* not user_input or not user_input.strip()
IsBlank(s) == s = << >> \/ Strip(s) = << >>


(***************************************************************************)
(* config/enums.py and the stage tables of the engine.                     *)
(***************************************************************************)
GREETING == "greeting"

INFO_COLLECTION == "info_collection"

TECHNICAL_ASSESSMENT == "technical_assessment"

BEHAVIORAL_ASSESSMENT == "behavioral_assessment"

PROBLEM_SOLVING == "problem_solving"

WRAP_UP == "wrap_up"

COMPLETED == "completed"

InterviewStage ==
    { GREETING, INFO_COLLECTION, TECHNICAL_ASSESSMENT, BEHAVIORAL_ASSESSMENT,
      PROBLEM_SOLVING, WRAP_UP, COMPLETED }

USER == "user"

ASSISTANT == "assistant"

\* ConversationState
CS_INITIALIZED == "initialized"

CS_ACTIVE == "active"

CS_COMPLETED == "completed"

\* Python's built-in function next, the value that the last statement of
\* _advance_to_next_stage stores in current_stage.
BuiltinNext == "<built-in function next>"

\* The value a call returns when the function ends without a return.
None == "None"

\* auto_advance with True as the default of the .get call.
auto_advance_by_default(stage) ==
    stage \notin { TECHNICAL_ASSESSMENT, BEHAVIORAL_ASSESSMENT }

\* ConversationEngine.stage_config, read as _should_advance_stage reads it:
\* a stage without an entry has the defaults of the .get calls.
auto_advance(stage) == stage \in { GREETING, INFO_COLLECTION, WRAP_UP }

min_exchanges(stage) ==
    CASE stage = GREETING -> 1
      [] stage = INFO_COLLECTION -> 3
      [] stage = TECHNICAL_ASSESSMENT -> 3
      [] stage = BEHAVIORAL_ASSESSMENT -> 2
      [] stage = WRAP_UP -> 1
      [] OTHER -> 1

required_data(stage) ==
    CASE stage = GREETING -> { "name" }
      [] stage = INFO_COLLECTION -> { "email", "experience", "position", "tech_stack" }
      [] OTHER -> {}

(***************************************************************************)
(* ConversationEngine (core/conversation_engine.py).  A handler returns    *)
(* its reply and the context as it has left it.                            *)
(***************************************************************************)
Message(role, content, stage, id) ==
    [role |-> role, content |-> content, stage |-> stage, message_id |-> id]

ClarifyReply == << "I didn't catch that. Could you please respond?" >>

ApologyReply ==
    << "I apologize, but I encountered an issue. Could you please try again?" >>

ContinueReply ==
    << "Thank you for your response. Let's continue our conversation." >>

\* Called by initialize_conversation; its definition is not in the file.
_generate_greeting_message(ctx) ==
    << "Hello! Welcome to TalentScout AI. What is your name?" >>

\* Called by _process_greeting_stage; its definition is not in the file.
_extract_name(user_input) ==
    CHOOSE r \in { Title(stripped) : stripped \in { Strip(user_input) } } : TRUE

_process_greeting_stage(ctx, user_input) ==
    CHOOSE r \in
      { IF name # << >>
        THEN [reply |-> << "Nice to meet you, **" >> \o name
                        \o << "**! ... Could you please share your **email address** so we can keep in touch?" >>,
              context |-> [ctx EXCEPT !.candidate_data = Put(@, "name", name)]]
        ELSE [reply |-> << "I'd love to get to know you better! What should I call you?" >>,
              context |-> ctx]
        : name \in { _extract_name(user_input) } } : TRUE

EmailRepromptReply ==
    << "Please provide a valid email address (e.g., john@example.com)" >>

\* [skill.strip().title() for skill in user_input.split(",") if skill.strip()]
ParseTechSkills(user_input) ==
    CHOOSE r \in { [i \in DOMAIN pieces |-> Title(pieces[i])] :
                      pieces \in { StrippedNonEmpty(SplitComma(user_input)) } } : TRUE

FirstSkillOr(tech_skills, default) ==
    IF tech_skills # << >> THEN tech_skills[1] ELSE << default >>

\* The handler storing whatever is submitted as the email.
_process_info_collection_stage_unvalidated(ctx, user_input) ==
    LET candidate_data == ctx.candidate_data
    IN  IF "email" \notin DOMAIN candidate_data
        THEN [reply |-> << "Perfect! Now, **how many years of professional experience** do you have?" >>,
              context |-> [ctx EXCEPT !.candidate_data = Put(@, "email", Strip(user_input))]]
        ELSE IF "experience" \notin DOMAIN candidate_data
        THEN [reply |-> << "Great! **What type of position** are you interested in?" >>,
              context |-> [ctx EXCEPT !.candidate_data = Put(@, "experience", Strip(user_input))]]
        ELSE IF "position" \notin DOMAIN candidate_data
        THEN [reply |-> << "Excellent! Now for the key part - **what programming languages, frameworks, and technologies** are you proficient with?" >>,
              context |-> [ctx EXCEPT !.candidate_data = Put(@, "position", Strip(user_input))]]
        ELSE CHOOSE r \in
               { [reply |-> << "Perfect! I now have your complete profile: Name: " >>
                            \o Get(candidate_data, "name", << "N/A" >>)
                            \o << " Position: " >> \o Get(candidate_data, "position", << "N/A" >>)
                            \o << " Experience: " >> \o Get(candidate_data, "experience", << "N/A" >>)
                            \o << " Tech Stack: " >> \o JoinComma(tech_skills)
                            \o << " ... tailored to your " >> \o FirstSkillOr(tech_skills, "technical")
                            \o << " background. **Technical Question 1:** Describe a challenging technical problem you've solved using " >>
                            \o FirstSkillOr(tech_skills, "your preferred technology"),
                  context |-> [ctx EXCEPT !.candidate_data = Put(@, "tech_stack", tech_skills)]]
                 : tech_skills \in { ParseTechSkills(user_input) } } : TRUE

_process_info_collection_stage(ctx, user_input) ==
    LET candidate_data == ctx.candidate_data
    IN  IF "email" \notin DOMAIN candidate_data
        THEN IF Contains(user_input, << "@" >>) /\ Contains(user_input, << "." >>)
             THEN [reply |-> << "Perfect! Now, **how many years of professional experience** do you have?" >>,
                   context |-> [ctx EXCEPT !.candidate_data = Put(@, "email", Strip(user_input))]]
             ELSE [reply |-> EmailRepromptReply, context |-> ctx]
        ELSE IF "experience" \notin DOMAIN candidate_data
        THEN [reply |-> << "Great! **What type of position** are you interested in?" >>,
              context |-> [ctx EXCEPT !.candidate_data = Put(@, "experience", Strip(user_input))]]
        ELSE IF "position" \notin DOMAIN candidate_data
        THEN [reply |-> << "Excellent! Now for the key part - **what programming languages, frameworks, and technologies** are you proficient with?" >>,
              context |-> [ctx EXCEPT !.candidate_data = Put(@, "position", Strip(user_input))]]
        ELSE CHOOSE r \in
               { [reply |-> << "Perfect! I now have your complete profile: Name: " >>
                            \o Get(candidate_data, "name", << "N/A" >>)
                            \o << " Position: " >> \o Get(candidate_data, "position", << "N/A" >>)
                            \o << " Experience: " >> \o Get(candidate_data, "experience", << "N/A" >>)
                            \o << " Tech Stack: " >> \o JoinComma(tech_skills)
                            \o << " ... tailored to your " >> \o FirstSkillOr(tech_skills, "technical")
                            \o << " background. **Technical Question 1:** Describe a challenging technical problem you've solved using " >>
                            \o FirstSkillOr(tech_skills, "your preferred technology"),
                  context |-> [ctx EXCEPT !.candidate_data = Put(@, "tech_stack", tech_skills)]]
                 : tech_skills \in { ParseTechSkills(user_input) } } : TRUE

_generate_encouragement_feedback(response) ==
    LET response_length == WordCount(response)
    IN  IF response_length > 80
        THEN << "**Excellent!** I appreciate the comprehensive explanation and the depth of detail you provided." >>
        ELSE IF response_length > 40
        THEN << "**Great response!** You've clearly thought through this problem systematically." >>
        ELSE IF response_length > 20
        THEN << "**Good insight!** Your experience in this area is evident." >>
        ELSE << "**Thank you for sharing that.** Your practical experience is valuable." >>

_generate_technical_question(tech_stack, question_number) ==
    LET primary_skill == FirstSkillOr(tech_stack, "programming")
    IN  CASE question_number = 1 ->
               << "How would you optimize the performance of a " >> \o primary_skill
               \o << " application that's running slowly in production?" >>
          [] question_number = 2 ->
               << "Describe how you would design a scalable system architecture using " >>
               \o primary_skill
          [] question_number = 3 ->
               << "What are the key security considerations you'd implement when building a " >>
               \o primary_skill \o << " application that handles sensitive user data?" >>
          [] OTHER ->
               << "Can you explain the best practices you follow when working with " >>
               \o primary_skill \o << "?" >>

\* The handler without the count stored.
_process_technical_stage_uncounted(ctx, user_input) ==
    LET stage_questions == Get(ctx.stage_progress, "technical_questions", 0) + 1
        ctx1 == ctx
        feedback == _generate_encouragement_feedback(user_input)
    IN  IF stage_questions <= 3
        THEN LET tech_stack == Get(ctx1.candidate_data, "tech_stack", << << "programming" >> >>)
             IN  [reply |-> feedback \o << "**Technical Question ", ToString(stage_questions + 1), ":**" >>
                            \o _generate_technical_question(tech_stack, stage_questions),
                  context |-> ctx1]
        ELSE [reply |-> feedback
                        \o << "**Technical Assessment Complete!** ... **Behavioral Question 1:** Tell me about a time when you had to work with a difficult team member" >>,
              context |-> ctx1]

_process_technical_stage(ctx, user_input) ==
    LET stage_questions == Get(ctx.stage_progress, "technical_questions", 0) + 1
        ctx1 == [ctx EXCEPT !.stage_progress = Put(@, "technical_questions", stage_questions)]
        feedback == _generate_encouragement_feedback(user_input)
    IN  IF stage_questions <= 3
        THEN LET tech_stack == Get(ctx1.candidate_data, "tech_stack", << << "programming" >> >>)
             IN  [reply |-> feedback \o << "**Technical Question ", ToString(stage_questions + 1), ":**" >>
                            \o _generate_technical_question(tech_stack, stage_questions),
                  context |-> ctx1]
        ELSE [reply |-> feedback
                        \o << "**Technical Assessment Complete!** ... **Behavioral Question 1:** Tell me about a time when you had to work with a difficult team member" >>,
              context |-> ctx1]

_generate_interview_completion(ctx) ==
    LET name == Get(ctx.candidate_data, "name", << >>)
        technical_q == Get(ctx.stage_progress, "technical_questions", 0)
        behavioral_q == Get(ctx.stage_progress, "behavioral_questions", 0)
        skills == Get(ctx.candidate_data, "tech_stack", << << "technical" >> >>)
    IN  [reply |-> << "**Interview Complete!** Thank you for your time today, **" >> \o name
                   \o << "**! Technical Questions: ", ToString(technical_q),
                         " Behavioral Questions: ", ToString(behavioral_q),
                         " ... Personalized questions based on your " >>
                   \o JoinComma(SubSeq(skills, 1, IF Len(skills) < 2 THEN Len(skills) ELSE 2))
                   \o << " background ... **Final Question:** Do you have any questions about our company, team, or the role that I can help answer?" >>,
         context |-> [ctx EXCEPT !.current_stage = COMPLETED,
                                 !.conversation_state = CS_COMPLETED]]

behavioral_questions ==
    << << "Describe a time when you had to learn a new technology or skill quickly for a project." >>,
       << "Tell me about a project where you had to meet a tight deadline." >>,
       << "Give me an example of when you had to explain a complex technical concept to a non-technical stakeholder." >> >>

_process_behavioral_stage(ctx, user_input) ==
    LET stage_questions == Get(ctx.stage_progress, "behavioral_questions", 0) + 1
        ctx1 == [ctx EXCEPT !.stage_progress = Put(@, "behavioral_questions", stage_questions)]
        feedback == _generate_encouragement_feedback(user_input)
    IN  IF stage_questions <= 2
        THEN [reply |-> feedback \o << "**Behavioral Question ", ToString(stage_questions + 1), ":**" >>
                        \o behavioral_questions[stage_questions]
                        \o << "Please continue using the **STAR method** in your response." >>,
              context |-> ctx1]
        ELSE _generate_interview_completion(ctx1)

_process_wrap_up_stage(ctx, user_input) ==
    [reply |-> << "Thank you for your thoughtful questions! Our interview process is now complete. ..." >>,
     context |-> ctx]

\* The dispatch sending the technical assessment to the info handler.
_process_stage_specific_input_misrouted(ctx, user_input) ==
    LET stage == ctx.current_stage
    IN  CASE stage = GREETING -> _process_greeting_stage(ctx, user_input)
          [] stage = INFO_COLLECTION -> _process_info_collection_stage(ctx, user_input)
          [] stage = TECHNICAL_ASSESSMENT -> _process_info_collection_stage(ctx, user_input)
          [] stage = BEHAVIORAL_ASSESSMENT -> _process_behavioral_stage(ctx, user_input)
          [] stage = WRAP_UP -> _process_wrap_up_stage(ctx, user_input)
          [] OTHER -> [reply |-> ContinueReply, context |-> ctx]

_process_stage_specific_input(ctx, user_input) ==
    LET stage == ctx.current_stage
    IN  CASE stage = GREETING -> _process_greeting_stage(ctx, user_input)
          [] stage = INFO_COLLECTION -> _process_info_collection_stage(ctx, user_input)
          [] stage = TECHNICAL_ASSESSMENT -> _process_technical_stage(ctx, user_input)
          [] stage = BEHAVIORAL_ASSESSMENT -> _process_behavioral_stage(ctx, user_input)
          [] stage = WRAP_UP -> _process_wrap_up_stage(ctx, user_input)
          [] OTHER -> [reply |-> ContinueReply, context |-> ctx]

_should_advance_stage(ctx) ==
    LET current_stage == ctx.current_stage
        history == ctx.conversation_history
        exchanges == Cardinality({ i \in DOMAIN history :
                                     /\ history[i].stage = current_stage
                                     /\ history[i].role = USER })
    IN  /\ auto_advance(current_stage)
        /\ exchanges >= min_exchanges(current_stage)
        /\ \A f \in required_data(current_stage) : f \in DOMAIN ctx.candidate_data

stage_progression(stage) ==
    CASE stage = GREETING -> INFO_COLLECTION
      [] stage = INFO_COLLECTION -> TECHNICAL_ASSESSMENT
      [] stage = TECHNICAL_ASSESSMENT -> BEHAVIORAL_ASSESSMENT
      [] stage = BEHAVIORAL_ASSESSMENT -> WRAP_UP
      [] stage = WRAP_UP -> COMPLETED
      [] OTHER -> COMPLETED

\* The function storing next_stage and returning the context.
_advance_to_next_stage_returning(ctx) ==
    [context |-> [ctx EXCEPT !.current_stage = stage_progression(ctx.current_stage)],
     result |-> "context"]

\* The function ends after "context.current_stage = next": it stores the
\* built-in function and returns nothing.
_advance_to_next_stage(ctx) ==
    [context |-> [ctx EXCEPT !.current_stage = BuiltinNext], result |-> None]


\* The user message of a turn, as process_user_input builds it.
user_message(ctx, user_input) ==
    Message(USER, Strip(user_input), ctx.current_stage,
            Len(ctx.conversation_history) + 1)

\* The assistant message numbered with the length before it is appended.
ai_message_stale_id(ctx, ai_response) ==
    Message(ASSISTANT, ai_response, ctx.current_stage,
            Len(ctx.conversation_history))

\* The assistant message of a turn, as process_user_input builds it.
ai_message(ctx, ai_response) ==
    Message(ASSISTANT, ai_response, ctx.current_stage,
            Len(ctx.conversation_history) + 1)

\* What a call of process_user_input leaves behind: the reply, the session
\* object as mutated, the context returned, and whether it raised.
process_user_input(obj, arg, user_input) ==
    IF IsBlank(user_input)
    THEN [reply |-> ClarifyReply, context |-> obj, returned |-> arg, raised |-> FALSE]
    ELSE IF arg = None
    THEN \* context.current_stage on None, before the try block
         [reply |-> << >>, context |-> obj, returned |-> arg, raised |-> TRUE]
    ELSE
    CHOOSE out \in
      { CHOOSE o \in
          { IF _should_advance_stage(c2)
            THEN LET a == _advance_to_next_stage(c2)
                 IN  IF a.result = None
                     THEN \* context.session_id on None raises inside the try block
                          [reply |-> ApologyReply, context |-> a.context,
                           returned |-> None, raised |-> FALSE]
                     ELSE [reply |-> r.reply, context |-> a.context,
                           returned |-> "context", raised |-> FALSE]
            ELSE [reply |-> r.reply, context |-> c2, returned |-> "context",
                  raised |-> FALSE]
            : c2 \in { [r.context EXCEPT !.conversation_history =
                           Append(@, ai_message(r.context, r.reply))] } }
          : TRUE
        : r \in { _process_stage_specific_input(c1, user_input) :
                    c1 \in { [obj EXCEPT !.conversation_history =
                                Append(@, user_message(obj, user_input))] } } }
      : TRUE

ConversationContext(session_id, stage, state, data, history, progress) ==
    [session_id |-> session_id, current_stage |-> stage, conversation_state |-> state,
     candidate_data |-> data, conversation_history |-> history, stage_progress |-> progress]

initialize_conversation(session_id) ==
    LET ctx == ConversationContext(session_id, GREETING, CS_INITIALIZED,
                                   EmptyDict, << >>, EmptyDict)
        greeting_message == _generate_greeting_message(ctx)
    IN  [ctx EXCEPT !.conversation_history =
                        Append(@, Message(ASSISTANT, greeting_message, GREETING, 1)),
                    !.conversation_state = CS_ACTIVE]


(***************************************************************************)
(* The chat UI (components/advanced_chat.py).  An operation takes the      *)
(* session_state and returns it as the operation leaves it.                *)
(***************************************************************************)
required_fields == << "name", "email", "experience", "position", "tech_stack" >>

\* main.py initialize_session_state, with the defaults that the chat UI's
\* st.session_state.get calls give auto_generate_questions and skip_requests.
initialize_session_state ==
    [interview_started |-> FALSE,
     current_stage |-> GREETING,
     question_count |-> 0,
     auto_generate_questions |-> TRUE,
     skip_requests |-> 0,
     candidate_info |-> EmptyDict,
     conversation_history |-> << >>]

add_message(st, role, content) ==
    [st EXCEPT !.conversation_history =
                   Append(@, [role |-> role, content |-> content,
                              stage |-> st.current_stage])]

StartGreeting ==
    << "Hello! I'm your AI interviewer from TalentScout. ... Let's start with the basics. **What's your full name?**" >>

start_interview(st) ==
    LET s1 == [st EXCEPT !.interview_started = TRUE,
                         !.current_stage = GREETING,
                         !.question_count = 0,
                         !.auto_generate_questions = TRUE,
                         !.skip_requests = 0]
        s2 == add_message(s1, ASSISTANT, StartGreeting)
    IN  [s2 EXCEPT !.question_count = @ + 1]

skip_indicators ==
    << <<"s", "k", "i", "p">>,
       <<"n", "e", "x", "t">>,
       <<"p", "a", "s", "s">>,
       <<"d", "o", "n", "t", " ", "w", "a", "n", "t">>,
       <<"d", "o", "n", "'", "t", " ", "w", "a", "n", "t">>,
       <<"n", "o", "t", "h", "i", "n", "g">>,
       <<"n", "o", " ", "i", "d", "e", "a">>,
       <<"d", "o", "n", "t", " ", "k", "n", "o", "w">>,
       <<"d", "o", "n", "'", "t", " ", "k", "n", "o", "w">>,
       <<"m", "o", "v", "e", " ", "o", "n">>,
       <<"n", "e", "x", "t", " ", "q", "u", "e", "s", "t", "i", "o", "n">>,
       <<"i", " ", "h", "a", "v", "e", " ", "n", "o", " ", "i", "d", "e", "a">>,
       <<"n", "o", " ", "e", "x", "p", "e", "r", "i", "e", "n", "c", "e">>,
       <<"n", "o", "t", " ", "s", "u", "r", "e">>,
       <<"u", "n", "s", "u", "r", "e">> >>

single_word_skips ==
    { <<"o", "k", "a", "y">>,
      <<"o", "k">>,
      <<"y", "e", "s">>,
      <<"n", "o">>,
      <<"i", "d", "k">>,
      <<"n", "o", "p", "e">> }

detect_skip_request(user_input) ==
    \E user_lower \in { Strip(Lower(user_input)) } :
        LET explicit_skip == \E i \in DOMAIN skip_indicators :
                                 Contains(user_lower, skip_indicators[i])
            too_short == Len(Strip(user_input)) <= 4
            single_word_skip == Lower(Strip(user_input)) \in single_word_skips
        IN  explicit_skip \/ (too_short /\ single_word_skip)

\* [tech.strip() for tech in tech_stack.split(',') if tech.strip()]
Technologies(tech_stack) == StrippedNonEmpty(SplitComma(tech_stack))

ExperienceWords == { <<"y", "e", "a", "r">>, <<"e", "x", "p">>, <<"y", "r">> }

FresherWords == { <<"f", "r", "e", "s", "h">>, <<"n", "e", "w">>,
                  <<"g", "r", "a", "d", "u", "a", "t", "e">> }

\* The last of the required fields that is missing.
LastMissing(candidate_info) ==
    IF \A i \in DOMAIN required_fields : required_fields[i] \in DOMAIN candidate_info
    THEN ""
    ELSE required_fields[CHOOSE i \in DOMAIN required_fields :
                             /\ required_fields[i] \notin DOMAIN candidate_info
                             /\ \A j \in (i + 1)..Len(required_fields) :
                                    required_fields[j] \in DOMAIN candidate_info]

\* The first field of required_fields that is not in candidate_info, the
\* field the loop of extract_candidate_info stops at ("" when none is missing).
FirstMissing(candidate_info) ==
    IF \A i \in DOMAIN required_fields : required_fields[i] \in DOMAIN candidate_info
    THEN ""
    ELSE required_fields[CHOOSE i \in DOMAIN required_fields :
                             /\ required_fields[i] \notin DOMAIN candidate_info
                             /\ \A j \in 1..(i - 1) :
                                    required_fields[j] \in DOMAIN candidate_info]

\* extract_candidate_info without the test for '@'.
extract_candidate_info_unvalidated(st, user_input) ==
    CHOOSE r \in {
    LET candidate_info == st.candidate_info
        user_lower == Lower(user_clean)
        set(value) == [st EXCEPT !.candidate_info = Put(@, field, value)]
    IN  CASE field = "name" -> set(Title(user_clean))
          [] field = "email" ->
                 set(user_clean)
          [] field = "experience" ->
                 IF IsDigit(user_clean) THEN set(user_clean \o << " years" >>)
                 ELSE IF \E w \in ExperienceWords : Contains(user_lower, w)
                 THEN set(user_clean)
                 ELSE IF \E w \in FresherWords : Contains(user_lower, w)
                 THEN set(<< "Fresher" >>)
                 ELSE set(user_clean \o << " years" >>)
          [] field = "position" -> set(Title(user_clean))
          [] field = "tech_stack" -> set(user_clean)
          [] OTHER -> st
        : user_clean \in { Strip(user_input) },
          field \in { FirstMissing(st.candidate_info) } } : TRUE

extract_candidate_info(st, user_input) ==
    CHOOSE r \in {
    LET candidate_info == st.candidate_info
        user_lower == Lower(user_clean)
        set(value) == [st EXCEPT !.candidate_info = Put(@, field, value)]
    IN  CASE field = "name" -> set(Title(user_clean))
          [] field = "email" ->
                 IF Contains(user_clean, << "@" >>) THEN set(user_clean) ELSE st
          [] field = "experience" ->
                 IF IsDigit(user_clean) THEN set(user_clean \o << " years" >>)
                 ELSE IF \E w \in ExperienceWords : Contains(user_lower, w)
                 THEN set(user_clean)
                 ELSE IF \E w \in FresherWords : Contains(user_lower, w)
                 THEN set(<< "Fresher" >>)
                 ELSE set(user_clean \o << " years" >>)
          [] field = "position" -> set(Title(user_clean))
          [] field = "tech_stack" -> set(user_clean)
          [] OTHER -> st
        : user_clean \in { Strip(user_input) },
          field \in { FirstMissing(st.candidate_info) } } : TRUE

\* list(candidate_info.keys())[-1]: the key inserted last.  Keys are only
\* inserted by extract_candidate_info, in the order of required_fields.
LastCollected(candidate_info) ==
    required_fields[CHOOSE i \in DOMAIN required_fields :
                        /\ required_fields[i] \in DOMAIN candidate_info
                        /\ \A j \in DOMAIN required_fields :
                               required_fields[j] \in DOMAIN candidate_info => j <= i]

field_questions(candidate_info, field) ==
    CASE field = "name" ->
             << "Nice to meet you, **" >> \o Get(candidate_info, "name", << "there" >>)
             \o << "**! Could you please share your **email address**?" >>
      [] field = "email" ->
             << "Perfect! How many **years of professional experience** do you have, " >>
             \o Get(candidate_info, "name", << >>) \o << "?" >>
      [] field = "experience" ->
             << "Great! **" >> \o Get(candidate_info, "experience", << >>)
             \o << "** is excellent. What **type of position** are you interested in?" >>
      [] field = "position" ->
             << "Perfect! What are your main **technical skills and technologies**?" >>
      [] OTHER -> << "Thank you for that comprehensive information!" >>

\* Returns the reply and the session_state (the stage may have been set).
generate_contextual_response(st, user_input) ==
    LET stage == st.current_stage
        candidate_info == st.candidate_info
        next_field == FirstMissing(candidate_info)
    IN  IF stage \in { GREETING, INFO_COLLECTION }
        THEN IF next_field # ""
             THEN [reply |-> IF DOMAIN candidate_info # {}
                                /\ LastCollected(candidate_info) # next_field
                             THEN field_questions(candidate_info, LastCollected(candidate_info))
                             ELSE field_questions(candidate_info, next_field),
                   state |-> st]
             ELSE LET tech_stack == Get(candidate_info, "tech_stack", << "programming" >>)
                      technologies == Technologies(tech_stack)
                      tech_count == Len(technologies)
                      profile == << " Name: " >> \o Get(candidate_info, "name", << "Not provided" >>)
                                 \o << " Experience: " >> \o Get(candidate_info, "experience", << "Not specified" >>)
                                 \o << " Position: " >> \o Get(candidate_info, "position", << "Not specified" >>)
                                 \o << " Technology: " >> \o tech_stack
                  IN  [reply |-> IF tech_count = 1
                                 THEN << "Perfect! I see you specialize in **" >> \o technologies[1]
                                      \o << "**." >> \o profile
                                      \o << " ... *Auto-generating your first question...*" >>
                                 ELSE << "Excellent! I see you work with **", ToString(tech_count),
                                         " technologies:** " >> \o JoinComma(technologies)
                                      \o profile
                                      \o << " ... *Auto-generating your first integration question...*" >>,
                       state |-> [st EXCEPT !.current_stage = TECHNICAL_ASSESSMENT]]
        ELSE IF stage = TECHNICAL_ASSESSMENT
        THEN [reply |-> << "Excellent technical insight! Your approach shows strong problem-solving skills." >>,
              state |-> st]
        ELSE IF stage = BEHAVIORAL_ASSESSMENT
        THEN [reply |-> << "Great example! That demonstrates strong professional competencies." >>,
              state |-> st]
        ELSE [reply |-> << "Thank you for that detailed response. Your experience is valuable." >>,
              state |-> st]

\* check_stage_advancement without the test that every field is present.
check_stage_advancement_ungated(st) ==
    IF st.current_stage = GREETING /\ Len(st.conversation_history) >= 4
    THEN [st EXCEPT !.current_stage = INFO_COLLECTION]
    ELSE IF st.current_stage = INFO_COLLECTION
    THEN [st EXCEPT !.current_stage = TECHNICAL_ASSESSMENT]
    ELSE st

check_stage_advancement(st) ==
    IF st.current_stage = GREETING /\ Len(st.conversation_history) >= 4
    THEN [st EXCEPT !.current_stage = INFO_COLLECTION]
    ELSE IF st.current_stage = INFO_COLLECTION
            /\ \A i \in DOMAIN required_fields :
                   required_fields[i] \in DOMAIN st.candidate_info
    THEN [st EXCEPT !.current_stage = TECHNICAL_ASSESSMENT]
    ELSE st

\* The text the LLM client call yields: the completion, or the text that
\* get_groq_response builds from the exception.
get_groq_response(llm) ==
    IF llm = "ok"
    THEN << "<completion>" >>
    ELSE << "I apologize, I'm experiencing technical difficulties: ", "<error>" >>

generate_smart_question(st, auto, llm) ==
    LET tech_stack == Get(st.candidate_info, "tech_stack", << "programming" >>)
        technologies == Technologies(tech_stack)
        tech_count == Len(technologies)
        prefix == IF tech_count = 1
                  THEN (IF auto THEN << "**" >> \o technologies[1] \o << "-Focused Question:**" >>
                                ELSE << "**Deep " >> \o technologies[1] \o << " Question:**" >>)
                  ELSE (IF auto THEN << "**Multi-Tech Integration:**" >>
                                ELSE << "**", ToString(tech_count), "-Technology Question:**" >>)
    IN  add_message(st, ASSISTANT, prefix \o get_groq_response(llm))

generate_smart_behavioral_question(st, auto, llm) ==
    LET prefix == IF auto THEN << "**Auto-Generated Behavioral:**" >>
                          ELSE << "**Smart Behavioral Question:**" >>
    IN  add_message(st, ASSISTANT, prefix \o get_groq_response(llm))

auto_generate_next_question(st, llm) ==
    IF ~st.auto_generate_questions THEN st
    ELSE IF st.current_stage = TECHNICAL_ASSESSMENT
    THEN generate_smart_question(st, TRUE, llm)
    ELSE IF st.current_stage = BEHAVIORAL_ASSESSMENT
    THEN generate_smart_behavioral_question(st, TRUE, llm)
    ELSE st

\* calculate_duration() reads the clock; the text carries it as one chunk.
generate_interview_completion(st) ==
    << "**Interview Successfully Completed!** Thank you for your time, **" >>
    \o Get(st.candidate_info, "name", << "there" >>)
    \o << "**! ... Technology Assessment: " >>
    \o Get(st.candidate_info, "tech_stack", << "your technologies" >>)
    \o << " Questions Generated: ", ToString(st.question_count), " Duration: ", "<duration>",
          " ... *Your interview data has been securely recorded for review.*" >>

AltTechnicalCount == 3

AltBehavioralCount == 5

\* random.choice(alt_questions), pick being the index drawn; raises
\* IndexError (result None) when no technology is left after the split.
get_alternative_technical_question(candidate_info, pick) ==
    LET tech_stack == Get(candidate_info, "tech_stack", << "programming" >>)
        technologies == Technologies(tech_stack)
    IN  IF Len(technologies) = 1
        THEN [raised |-> FALSE,
              question |-> << "<single-tech alternative ", ToString(pick), "> " >> \o technologies[1]]
        ELSE IF technologies = << >>
        THEN [raised |-> TRUE, question |-> << >>]
        ELSE [raised |-> FALSE,
              question |-> << "<multi-tech alternative ", ToString(pick), "> " >>
                           \o JoinComma(technologies)]

get_alternative_behavioral_question(pick) ==
    << "<behavioral alternative ", ToString(pick), ">" >>


\* Returns the session_state and whether the call raised.
generate_alternative_question(st, pick) ==
    IF st.current_stage = TECHNICAL_ASSESSMENT
    THEN LET alt == get_alternative_technical_question(st.candidate_info, pick)
         IN  IF alt.raised
             THEN [state |-> st, raised |-> TRUE]
             ELSE [state |-> add_message(st, ASSISTANT,
                                 << "**Alternative Technical Question:**" >> \o alt.question),
                   raised |-> FALSE]
    ELSE IF st.current_stage = BEHAVIORAL_ASSESSMENT
    THEN [state |-> add_message(st, ASSISTANT,
                        << "**Alternative Behavioral Question:**" >>
                        \o get_alternative_behavioral_question(pick)),
          raised |-> FALSE]
    ELSE [state |-> st, raised |-> FALSE]

handle_skip_request(st, llm, pick) ==
    LET stage == st.current_stage
        skip_count == st.skip_requests
    IN  IF stage = BEHAVIORAL_ASSESSMENT /\ skip_count >= 3
        THEN LET s1 == [st EXCEPT !.current_stage = WRAP_UP]
             IN  [state |-> add_message(s1, ASSISTANT, generate_interview_completion(s1)),
                  raised |-> FALSE]
        ELSE IF stage \in { TECHNICAL_ASSESSMENT, BEHAVIORAL_ASSESSMENT }
        THEN CHOOSE out \in
               { generate_alternative_question(s1, pick) :
                   s1 \in { add_message(st, ASSISTANT,
                                << "No problem! Let me try a different approach." >>) } } : TRUE
        ELSE LET s1 == add_message(st, ASSISTANT,
                                   << "Understood! Let me ask something different." >>)
             IN  [state |-> IF s1.auto_generate_questions
                            THEN auto_generate_next_question(s1, llm)
                            ELSE s1,
                  raised |-> FALSE]

\* One run of handle_chat_input with user_input submitted.
handle_chat_input(st, user_input, llm, pick) ==
    IF ~(user_input # << >> /\ Strip(user_input) # << >>)
    THEN [state |-> st, raised |-> FALSE]
    ELSE IF detect_skip_request(user_input)
    THEN CHOOSE out \in
           { handle_skip_request(s1, llm, pick) :
               s1 \in { [add_message(st, USER, user_input) EXCEPT
                            !.skip_requests = @ + 1] } } : TRUE
    ELSE CHOOSE out \in
           { [state |-> check_stage_advancement(s6), raised |-> FALSE] :
             s6 \in { [s5 EXCEPT !.question_count = @ + 1] :
             s5 \in { IF s4.auto_generate_questions
                         /\ s4.current_stage \in { TECHNICAL_ASSESSMENT,
                                                   BEHAVIORAL_ASSESSMENT }
                      THEN auto_generate_next_question(s4, llm)
                      ELSE s4 :
             s4 \in { add_message(r.state, ASSISTANT, r.reply) :
             r  \in { generate_contextual_response(s3, user_input) :
             s3 \in { extract_candidate_info(s2, user_input) :
             s2 \in { [add_message(st, USER, user_input) EXCEPT
                         !.skip_requests = 0] } } } } } } } : TRUE

\* The "Next Stage" control.
advance_to_next_stage(st) ==
    LET current_stage == st.current_stage
        next_stage == CASE current_stage = GREETING -> INFO_COLLECTION
                        [] current_stage = INFO_COLLECTION -> TECHNICAL_ASSESSMENT
                        [] current_stage = TECHNICAL_ASSESSMENT -> BEHAVIORAL_ASSESSMENT
                        [] current_stage = BEHAVIORAL_ASSESSMENT -> WRAP_UP
                        [] OTHER -> WRAP_UP
        s1 == [st EXCEPT !.current_stage = next_stage]
        message == CASE next_stage = INFO_COLLECTION ->
                            << "**Information Collection Phase** Let's gather details about your background." >>
                     [] next_stage = TECHNICAL_ASSESSMENT ->
                            << "**Technical Assessment Phase** Time for technical questions based on your skills." >>
                     [] next_stage = BEHAVIORAL_ASSESSMENT ->
                            << "**Behavioral Assessment Phase** Let's explore your soft skills and work approach." >>
                     [] next_stage = WRAP_UP -> generate_interview_completion(s1)
                     [] OTHER -> << "Moving to next stage..." >>
    IN  add_message(s1, ASSISTANT, message)

\* The assistant messages an operation has appended to the chat history.
Appended(before, after) ==
    SubSeq(after.conversation_history, Len(before.conversation_history) + 1,
           Len(after.conversation_history))

FirstAssistantReply(before, after) ==
    LET new == Appended(before, after)
        idx == { i \in DOMAIN new : new[i].role = ASSISTANT }
    IN  IF idx = {} THEN << >>
        ELSE new[CHOOSE i \in idx : \A j \in idx : i <= j].content

(***************************************************************************)
(* The sessions.                                                           *)
(***************************************************************************)
(***************************************************************************)
(* core/ai_manager.py: the question generator.                             *)
(***************************************************************************)
\* The contexts a request for a question may carry; a key that is missing
\* takes the default of context.get.
GeneratorContexts ==
    { EmptyDict,
      [stage |-> "technical", skills |-> << >>],
      [stage |-> "closing"] }

\* context.get("skills", ["Python", "JavaScript"])
DefaultSkills ==
    << << "P", "y", "t", "h", "o", "n" >>,
       << "J", "a", "v", "a", "S", "c", "r", "i", "p", "t" >> >>

fallback_questions(interview_stage, skills) ==
    CASE interview_stage = "greeting" ->
           << "Tell me about yourself and what interests you about this position." >>
      [] interview_stage = "technical" ->
           << "Describe a challenging " >>
           \o (IF skills # << >> THEN skills[1] ELSE << "technical" >>)
           \o << " problem you solved recently." >>
      [] interview_stage = "behavioral" ->
           << "Tell me about a time you had to work with a difficult team member." >>
      [] interview_stage = "problem_solving" ->
           << "How would you approach debugging a system that's running slowly?" >>
      [] interview_stage = "wrap_up" ->
           << "What questions do you have about our team and company culture?" >>
      [] OTHER -> << "Tell me about a project you're proud of." >>

\* What one call returns and the question_history it leaves; llm is the
\* outcome of _make_sync_api_call.
generate_dynamic_question_sync(history, ctx, llm, timestamp) ==
    CHOOSE r \in {
        IF llm = "ok"
        THEN [result |-> [question |-> << "<completion>" >>, type |-> interview_stage,
                          success |-> TRUE, context |-> ctx],
              question_history |->
                  Append(history, [question |-> << "<completion>" >>,
                                   stage |-> interview_stage,
                                   timestamp |-> timestamp, context |-> ctx])]
        ELSE [result |-> [question |-> fallback_questions(interview_stage, skills),
                          type |-> interview_stage,
                          error |-> << "<error>" >>, success |-> FALSE],
              question_history |-> history]
        : interview_stage \in { Get(ctx, "stage", "technical") },
          skills \in { Get(ctx, "skills", DefaultSkills) } } : TRUE

get_question_history == question_history

(***************************************************************************)
(* database/crud.py and api/routes.py.                                     *)
(***************************************************************************)
\* INSERT OR REPLACE INTO interview_sessions, a table with one row for a
\* session_id.
execute_update_session(table, session_id, row) ==
    [id \in DOMAIN table \cup { session_id } |->
        IF id = session_id THEN row ELSE table[id]]

create_session(table, session_id, timestamp) ==
    execute_update_session(table, session_id,
        [current_stage |-> "greeting", start_time |-> timestamp, status |-> "active"])

\* int(datetime.now().timestamp()): the clock's whole seconds.
NewSessionId(timestamp) == "session_" \o ToString(timestamp \div TicksPerSecond)

NoRequest == [session_id |-> "", context |-> EmptyDict]

NoResponse == [status |-> 0]

HTTP_200_OK == 200

HTTP_500_INTERNAL_SERVER_ERROR == 500

\* str() of the HTTPException raised for a failed generation, as the
\* installed framework version renders it.
HTTPExceptionTexts(detail) ==
    { << "400: " >> \o detail, << >> }

SessionId == "session_1"

\* last_call: the operation, the text submitted, the outcome of the LLM
\* client call, and the stage and targeted field when the call was made.
NoCall ==
    [op |-> "none", user_input |-> << >>, llm |-> "unused", target |-> "",
     stage |-> ""]

\* The profile a caller's context carries: the first k fields, in the order
\* the handlers fill them.
CallerProfile(k) ==
    [f \in { required_fields[i] : i \in 1..k } |->
        CASE f = "name" -> << "A", "l" >>
          [] f = "email" -> << "a", "@", "b", ".", "c" >>
          [] f = "experience" -> << "3" >>
          [] f = "position" -> << "d", "e", "v" >>
          [] OTHER -> << << "P", "y" >> >>]

CallerProgress(technical, behavioral) ==
    [c \in (IF technical > 0 THEN { "technical_questions" } ELSE {})
            \cup (IF behavioral > 0 THEN { "behavioral_questions" } ELSE {}) |->
        IF c = "technical_questions" THEN technical ELSE behavioral]

\* ConversationContext is a dataclass a caller of process_user_input may
\* build itself: a context at a stage, with the profile that stage stands
\* for, the questions counted so far, and the default empty history.
CallerContexts ==
    { ConversationContext(SessionId, GREETING, CS_ACTIVE, CallerProfile(0),
                          << >>, EmptyDict) }
    \cup { ConversationContext(SessionId, INFO_COLLECTION, CS_ACTIVE,
                               CallerProfile(k), << >>, EmptyDict) : k \in 1..5 }
    \cup { ConversationContext(SessionId, TECHNICAL_ASSESSMENT, CS_ACTIVE,
                               CallerProfile(5), << >>, CallerProgress(t, 0)) :
             t \in { 0, 3 } }
    \cup { ConversationContext(SessionId, BEHAVIORAL_ASSESSMENT, CS_ACTIVE,
                               CallerProfile(5), << >>, CallerProgress(4, b)) :
             b \in { 0, 2 } }
    \cup { ConversationContext(SessionId, stage, CS_ACTIVE,
                               CallerProfile(5), << >>, CallerProgress(4, 3)) :
             stage \in { PROBLEM_SOLVING, WRAP_UP } }
    \cup { ConversationContext(SessionId, COMPLETED, CS_COMPLETED,
                               CallerProfile(5), << >>, CallerProgress(4, 3)) }


(***************************************************************************)
(* utils/rate_limiter.py.  A RateLimiter is its two parameters and calls,  *)
(* the timestamps it has recorded for each user, oldest first.  Times are  *)
(* seconds; an Optional time is a set, empty for None.                     *)
(***************************************************************************)
NoTime == {}

UserIds == { "default", "u1" }

RateLimiter(max_calls, time_window) ==
    [max_calls |-> max_calls, time_window |-> time_window,
     calls |-> [user_id \in UserIds |-> << >>]]

\* "while user_calls and current_time - user_calls[0] > self.time_window"
RECURSIVE RemoveOldCalls(_, _, _)
RemoveOldCalls(user_calls, current_time, time_window) ==
    IF user_calls # << >> /\ current_time - Head(user_calls) > time_window
    THEN RemoveOldCalls(Tail(user_calls), current_time, time_window)
    ELSE user_calls

\* The limiter that appends whatever it holds.
is_allowed_unchecked(limiter, user_id, current_time) ==
    [limiter |-> [limiter EXCEPT !.calls[user_id] = Append(@, current_time)],
     allowed |-> TRUE]

is_allowed(limiter, user_id, current_time) ==
    LET user_calls == RemoveOldCalls(limiter.calls[user_id], current_time,
                                     limiter.time_window)
    IN  IF Len(user_calls) < limiter.max_calls
        THEN [limiter |-> [limiter EXCEPT
                              !.calls[user_id] = Append(user_calls, current_time)],
              allowed |-> TRUE]
        ELSE [limiter |-> [limiter EXCEPT !.calls[user_id] = user_calls],
              allowed |-> FALSE]

get_reset_time(limiter, user_id, current_time) ==
    LET user_calls == limiter.calls[user_id]
        reset_time == Head(user_calls) + limiter.time_window
    IN  IF user_calls = << >> THEN NoTime
        ELSE IF reset_time - current_time > 0 THEN { reset_time - current_time }
        ELSE { 0 }

\* APIRateLimiter.__init__
APIRateLimiter ==
    [groq |-> RateLimiter(GroqMaxCalls, 60),
     openai |-> RateLimiter(OpenAIMaxCalls, 60),
     general |-> RateLimiter(GeneralMaxCalls, 60)]

\* "self.limiters.get(api_name, self.limiters['general'])"
LimiterOf(api_name) == IF api_name \in DOMAIN APIRateLimiter THEN api_name ELSE "general"

check_limit(ls, api_name, user_id, current_time) ==
    LET name == LimiterOf(api_name)
        out == is_allowed(ls[name], user_id, current_time)
    IN  [limiters |-> [ls EXCEPT ![name] = out.limiter],
         result |-> [allowed |-> out.allowed,
                     reset_time |-> get_reset_time(out.limiter, user_id, current_time),
                     api |-> api_name]]

\* wait_if_needed: the seconds it sleeps (0: none) and what it returns.
wait_if_needed(ls, api_name, user_id, current_time) ==
    LET out == check_limit(ls, api_name, user_id, current_time)
        \* "not result['allowed'] and result['reset_time']": None and 0 are false
        waits == /\ ~out.result.allowed
                 /\ \E reset_time \in out.result.reset_time : reset_time # 0
        wait_times == { IF reset_time < 60 THEN reset_time ELSE 60 :
                           reset_time \in out.result.reset_time }
    IN  [limiters |-> out.limiters,
         result |-> out.result,
         wait_time |-> IF waits THEN CHOOSE wait_time \in wait_times : TRUE ELSE 0,
         returned |-> waits]

ApiNames == { "groq", "other" }

(***************************************************************************)
(* core/security_manager.py: the rate limits.  A RateLimitInfo is a        *)
(* record; rate_limit_data is a defaultdict, a function that holds the     *)
(* default RateLimitInfo for a key not yet used.                           *)
(***************************************************************************)
rate_limits ==
    [message |-> [max_requests |-> MessageMaxRequests, time_window |-> 60],
     api |-> [max_requests |-> ApiMaxRequests, time_window |-> 3600],
     login |-> [max_requests |-> LoginMaxRequests, time_window |-> 300]]

RateLimitInfo ==
    [requests |-> << >>, blocked_until |-> NoTime, total_requests |-> 0,
     blocked_count |-> 0]

Identifiers == { "u1" }

LimitTypes == { "message", "login" }

\* f"{identifier}_{limit_type}"
RateLimitKey(identifier, limit_type) == identifier \o "_" \o limit_type

RateLimitKeys == { RateLimitKey(i, t) : i \in Identifiers, t \in LimitTypes }

\* "while rate_info.requests and rate_info.requests[0] < cutoff_time"
RECURSIVE CleanOldRequests(_, _)
CleanOldRequests(requests, cutoff_time) ==
    IF requests # << >> /\ Head(requests) < cutoff_time
    THEN CleanOldRequests(Tail(requests), cutoff_time)
    ELSE requests

\* The duration without its ceiling.
block_duration_uncapped(blocked_count) == 60 * (blocked_count + 1)

\* "min(300, 60 * (rate_info.blocked_count + 1))"
block_duration(blocked_count) ==
    IF 60 * (blocked_count + 1) < 300 THEN 60 * (blocked_count + 1) ELSE 300

\* _log_security_event keeps the last 1000 events; an event is kept without
\* the time it was logged at.
SecurityEventsKept == 1000

_log_security_event(events, event) ==
    LET appended == Append(events, event)
    IN  IF Len(appended) > SecurityEventsKept
        THEN SubSeq(appended, Len(appended) - SecurityEventsKept + 1, Len(appended))
        ELSE appended

\* check_rate_limit: the data and events after the call, and the two values
\* it returns.
check_rate_limit(data, events, identifier, limit_type, current_time) ==
    LET limit_config == IF limit_type \in DOMAIN rate_limits
                        THEN rate_limits[limit_type] ELSE rate_limits["message"]
        key == RateLimitKey(identifier, limit_type)
        cutoff_time == current_time - limit_config.time_window
        rate_info == [data[key] EXCEPT
                         !.requests = CleanOldRequests(@, cutoff_time)]
        max_requests == limit_config.max_requests
        current_requests == Len(rate_info.requests)
        duration == block_duration(rate_info.blocked_count)
    IN  IF \E blocked_until \in rate_info.blocked_until : current_time < blocked_until
        THEN [data |-> [data EXCEPT ![key] = rate_info],
              events |-> events,
              allowed |-> FALSE,
              info |-> [allowed |-> FALSE, reason |-> "rate_limit_blocked",
                        blocked_until |-> rate_info.blocked_until,
                        requests_count |-> current_requests]]
        ELSE IF current_requests >= max_requests
        THEN [data |-> [data EXCEPT ![key] =
                           [rate_info EXCEPT
                               !.blocked_until = { current_time + duration },
                               !.blocked_count = @ + 1]],
              events |-> _log_security_event(events,
                             [event_type |-> "rate_limit_exceeded",
                              session_id |-> identifier,
                              severity |-> "medium",
                              metadata |-> [limit_type |-> limit_type,
                                            requests_count |-> current_requests,
                                            max_requests |-> max_requests,
                                            block_duration |-> duration]]),
              allowed |-> FALSE,
              info |-> [allowed |-> FALSE, reason |-> "rate_limit_exceeded",
                        blocked_until |-> { current_time + duration },
                        requests_count |-> current_requests]]
        ELSE [data |-> [data EXCEPT ![key] =
                           [rate_info EXCEPT
                               !.requests = Append(@, current_time),
                               !.total_requests = @ + 1]],
              events |-> events,
              allowed |-> TRUE,
              info |-> [allowed |-> TRUE, reason |-> None,
                        blocked_until |-> NoTime,
                        requests_count |-> current_requests + 1]]

(***************************************************************************)
(* core/security_manager.py: the session tokens.  secrets.token_urlsafe    *)
(* gives a token not given before: the n-th token issued is Tokens[n].     *)
(***************************************************************************)
Tokens == << "token_1", "token_2" >>

\* What a caller may present: the empty string or a token of Tokens, issued
\* or not.
TokenInputs == { "" } \cup Range(Tokens)

UserData == { "u1" }

Remove(d, key) == [k \in (DOMAIN d) \ {key} |-> d[k]]

generate_session_token(sessions, token, user_data, current_time) ==
    Put(sessions, token,
        [created_at |-> current_time, user_data |-> user_data,
         last_activity |-> current_time, request_count |-> 0])

\* The validation that does not touch the session.
validate_session_token_unrefreshed(sessions, token, current_time) ==
    IF token = "" \/ token \notin DOMAIN sessions
    THEN [sessions |-> sessions, valid |-> FALSE, user_data |-> None]
    ELSE IF current_time - sessions[token].created_at > 24 * 3600
    THEN [sessions |-> Remove(sessions, token), valid |-> FALSE, user_data |-> None]
    ELSE IF current_time - sessions[token].last_activity > 2 * 3600
    THEN [sessions |-> Remove(sessions, token), valid |-> FALSE, user_data |-> None]
    ELSE [sessions |-> sessions, valid |-> TRUE,
          user_data |-> sessions[token].user_data]

validate_session_token(sessions, token, current_time) ==
    IF token = "" \/ token \notin DOMAIN sessions
    THEN [sessions |-> sessions, valid |-> FALSE, user_data |-> None]
    ELSE IF current_time - sessions[token].created_at > 24 * 3600
    THEN [sessions |-> Remove(sessions, token), valid |-> FALSE, user_data |-> None]
    ELSE IF current_time - sessions[token].last_activity > 2 * 3600
    THEN [sessions |-> Remove(sessions, token), valid |-> FALSE, user_data |-> None]
    ELSE [sessions |-> [sessions EXCEPT ![token] =
                           [@ EXCEPT !.last_activity = current_time,
                                     !.request_count = @ + 1]],
          valid |-> TRUE,
          user_data |-> sessions[token].user_data]

(***************************************************************************)
(* models/llm_providers.py: the manager of the providers.                  *)
(***************************************************************************)
ProviderNames == { "groq", "openai", "anthropic" }

\* _initialize_providers: a provider is registered when its key is set and
\* its client library loads.
_initialize_providers(groq_available, openai_available) ==
    LET order == (IF groq_available THEN << "groq" >> ELSE << >>)
                 \o (IF openai_available THEN << "openai" >> ELSE << >>)
    IN  [providers |-> Range(order),
         primary_provider |-> IF order = << >> THEN None ELSE Head(order),
         fallback_order |-> order]

\* The loop of generate_response over the names left in the fallback order;
\* succeeds[n] tells whether the n-th call of a provider succeeds.
RECURSIVE TryProviders(_, _, _, _)
TryProviders(names, providers, succeeds, called) ==
    IF names = << >>
    THEN [response |-> [success |-> FALSE, provider |-> "none", model |-> "fallback",
                        error |-> "All LLM providers failed"],
          called |-> called]
    ELSE IF Head(names) \notin providers
    THEN TryProviders(Tail(names), providers, succeeds, called)
    ELSE IF succeeds[Len(called) + 1]
    THEN [response |-> [success |-> TRUE, provider |-> Head(names),
                        model |-> Head(names), error |-> None],
          called |-> Append(called, Head(names))]
    ELSE TryProviders(Tail(names), providers, succeeds, Append(called, Head(names)))

generate_response(manager, succeeds) ==
    IF manager.providers = {}
    THEN [response |-> [success |-> FALSE, provider |-> "none", model |-> "none",
                        error |-> "No LLM providers available"],
          called |-> << >>]
    ELSE TryProviders(manager.fallback_order, manager.providers, succeeds, << >>)

\* "self.fallback_order.remove(provider_name)": the first occurrence goes.
RECURSIVE RemoveFirst(_, _)
RemoveFirst(order, name) ==
    IF order = << >> THEN << >>
    ELSE IF Head(order) = name THEN Tail(order)
    ELSE << Head(order) >> \o RemoveFirst(Tail(order), name)

\* The setter that inserts the name without removing it.
set_primary_provider_keeping(manager, provider_name) ==
    IF provider_name \in manager.providers
    THEN [manager |-> [manager EXCEPT
                          !.primary_provider = provider_name,
                          !.fallback_order = << provider_name >> \o @],
          returned |-> TRUE]
    ELSE [manager |-> manager, returned |-> FALSE]

set_primary_provider(manager, provider_name) ==
    IF provider_name \in manager.providers
    THEN [manager |-> [manager EXCEPT
                          !.primary_provider = provider_name,
                          !.fallback_order =
                              << provider_name >> \o RemoveFirst(@, provider_name)],
          returned |-> TRUE]
    ELSE [manager |-> manager, returned |-> FALSE]

(***************************************************************************)
(* The service objects as their modules construct them.                    *)
(***************************************************************************)
NoServiceCall == [op |-> "none"]

NoServiceLog ==
    [granted |-> << >>,
     allowed |-> [key \in RateLimitKeys |-> 0],
     issued |-> EmptyDict,
     expired |-> {}]

ServicesConstructed ==
    /\ limiters = APIRateLimiter
    /\ rate_limit_data = [key \in RateLimitKeys |-> RateLimitInfo]
    /\ security_events = << >>
    /\ active_sessions = EmptyDict
    /\ service_call = NoServiceCall
    /\ service_log = NoServiceLog

Init ==
    /\ driver \in { "engine", "chat", "api" }
    /\ context \in { initialize_conversation(SessionId) }
                    \cup (IF driver = "engine" THEN CallerContexts ELSE {})
    /\ updated_context = "context"
    /\ session_state = initialize_session_state
    /\ reply = << >>
    /\ raised = FALSE
    /\ last_call = NoCall
    /\ now = 0
    /\ interview_sessions = EmptyDict
    /\ question_history = << >>
    /\ http_request = NoRequest
    /\ http_response = NoResponse
    /\ created = << >>
    /\ ServicesConstructed
    /\ llm_manager = _initialize_providers(FALSE, FALSE)

\* The field a processed turn of the engine would ask for or fill.
EngineTarget(ctx) ==
    IF ctx.current_stage = GREETING THEN "name"
    ELSE IF ctx.current_stage = INFO_COLLECTION
    THEN (IF "email" \notin DOMAIN ctx.candidate_data THEN "email"
          ELSE IF "experience" \notin DOMAIN ctx.candidate_data THEN "experience"
          ELSE IF "position" \notin DOMAIN ctx.candidate_data THEN "position"
          ELSE "tech_stack")
    ELSE ""

\* A caller submits user_input with the session's context object, or with
\* the context the previous call returned.
ProcessUserInput ==
    /\ driver = "engine"
    /\ \E user_input \in UserInputs, arg \in { "context", updated_context } :
          \E out \in { process_user_input(context, arg, user_input) } :
              /\ Len(out.context.conversation_history) <= MaxContextHistory
              /\ context' = out.context
              /\ updated_context' = out.returned
              /\ reply' = out.reply
              /\ raised' = out.raised
              /\ last_call' = [op |-> "process_user_input", user_input |-> user_input,
                               llm |-> "unused",
                               target |-> IF arg = None THEN "" ELSE EngineTarget(context),
                               stage |-> IF arg = None THEN None
                                         ELSE context.current_stage]
    /\ UNCHANGED << driver, session_state >>
    /\ UNCHANGED apivars
    /\ UNCHANGED servicevars

StartInterview ==
    /\ driver = "chat"
    /\ ~session_state.interview_started
    /\ session_state' = start_interview(session_state)
    /\ reply' = StartGreeting
    /\ raised' = FALSE
    /\ last_call' = [NoCall EXCEPT !.op = "start_interview",
                                   !.stage = session_state.current_stage]
    /\ UNCHANGED << driver, context, updated_context >>
    /\ UNCHANGED apivars
    /\ UNCHANGED servicevars

\* The outcomes of the LLM client call that a run of handle_chat_input can
\* meet, given what the run appends when the call succeeds: both when the
\* run makes a call, none to tell apart when it makes none.
LlmOutcomes(st, ok_state) ==
    IF \E i \in DOMAIN Appended(st, ok_state) :
           Contains(Appended(st, ok_state)[i].content, get_groq_response("ok"))
    THEN { "ok", "fail" }
    ELSE { "unused" }

\* The indexes random.choice can draw in a run of handle_chat_input: it
\* draws when handle_skip_request asks for an alternative question.
Picks(st, user_input) ==
    IF /\ user_input # << >> /\ Strip(user_input) # << >>
       /\ detect_skip_request(user_input)
       /\ st.current_stage \in { TECHNICAL_ASSESSMENT, BEHAVIORAL_ASSESSMENT }
       /\ ~(st.current_stage = BEHAVIORAL_ASSESSMENT /\ st.skip_requests + 1 >= 3)
    THEN 1..(IF st.current_stage = TECHNICAL_ASSESSMENT
             THEN AltTechnicalCount ELSE AltBehavioralCount)
    ELSE { 1 }

\* One submission in the chat box, of a text among inputs, in a conversation
\* of at most bound messages.
ChatInputStep(inputs, bound) ==
    /\ driver = "chat"
    /\ session_state.interview_started
    /\ \E user_input \in inputs :
       \E ok \in { handle_chat_input(session_state, user_input, "ok", 1) } :
       \E llm \in LlmOutcomes(session_state, ok.state),
          pick \in Picks(session_state, user_input) :
          \E out \in { IF llm # "fail" /\ pick = 1 THEN ok
                        ELSE handle_chat_input(session_state, user_input, llm, pick) } :
              /\ Len(out.state.conversation_history) <= bound
              /\ session_state' = out.state
              /\ reply' = FirstAssistantReply(session_state, out.state)
              /\ raised' = out.raised
              /\ last_call' = [op |-> "handle_chat_input", user_input |-> user_input,
                               llm |-> llm,
                               target |-> FirstMissing(session_state.candidate_info),
                               stage |-> session_state.current_stage]
    /\ UNCHANGED << driver, context, updated_context >>
    /\ UNCHANGED apivars
    /\ UNCHANGED servicevars

HandleChatInput == ChatInputStep(UserInputs, MaxHistory)

\* render_stage_info_and_controls shows the control in the two assessment stages.
NextStageStep(bound) ==
    /\ driver = "chat"
    /\ session_state.interview_started
    /\ session_state.current_stage \in { TECHNICAL_ASSESSMENT, BEHAVIORAL_ASSESSMENT }
    /\ Len(session_state.conversation_history) < bound
    /\ \E out \in { advance_to_next_stage(session_state) } :
          /\ session_state' = out
          /\ reply' = FirstAssistantReply(session_state, out)
    /\ raised' = FALSE
    /\ last_call' = [NoCall EXCEPT !.op = "advance_to_next_stage",
                                   !.stage = session_state.current_stage]
    /\ UNCHANGED << driver, context, updated_context >>
    /\ UNCHANGED apivars
    /\ UNCHANGED servicevars

NextStageButton == NextStageStep(MaxHistory)

\* The clock moves on.
Tick ==
    /\ driver = "api"
    /\ now < MaxNow
    /\ now' = now + 1
    /\ UNCHANGED << driver, context, updated_context, session_state, reply, raised,
                    last_call, interview_sessions, question_history, http_request,
                    http_response, created >>
    /\ UNCHANGED servicevars

\* POST /session/create
CreateInterviewSession ==
    /\ driver = "api"
    /\ Len(created) < MaxSessions
    /\ \E session_id \in { NewSessionId(now) } :
          /\ interview_sessions' = create_session(interview_sessions, session_id, now)
          /\ http_request' = NoRequest
          /\ http_response' = [status |-> HTTP_200_OK, session_id |-> session_id,
                          current_stage |-> "greeting"]
          /\ created' = Append(created, session_id)
    /\ last_call' = [NoCall EXCEPT !.op = "create_interview_session"]
    /\ UNCHANGED << driver, context, updated_context, session_state, reply, raised,
                    now, question_history >>
    /\ UNCHANGED servicevars

\* POST /chat/generate-question for a session that was created.
GenerateAiQuestion ==
    /\ driver = "api"
    /\ \E session_id \in Range(created), ctx \in GeneratorContexts, llm \in { "ok", "fail" } :
       \E out \in { generate_dynamic_question_sync(question_history, ctx, llm, now) } :
          /\ Len(out.question_history) <= MaxQuestionHistory
          /\ question_history' = out.question_history
          /\ http_request' = [session_id |-> session_id, context |-> ctx]
          /\ IF out.result.success
             THEN http_response' = [status |-> HTTP_200_OK, question |-> out.result.question,
                               type |-> out.result.type, success |-> TRUE]
             ELSE \E detail \in HTTPExceptionTexts(out.result.error) :
                     http_response' = [status |-> HTTP_500_INTERNAL_SERVER_ERROR,
                                  detail |-> detail]
          /\ last_call' = [NoCall EXCEPT !.op = "generate_ai_question", !.llm = llm]
    /\ UNCHANGED << driver, context, updated_context, session_state, reply, raised,
                    now, interview_sessions, created >>
    /\ UNCHANGED servicevars

Next ==
    \/ ProcessUserInput
    \/ StartInterview
    \/ HandleChatInput
    \/ NextStageButton
    \/ Tick
    \/ CreateInterviewSession
    \/ GenerateAiQuestion

Spec == Init /\ [][Next]_vars

(***************************************************************************)
(* The assessment stages: sessions that have come through greeting and     *)
(* info collection, followed to a longer conversation with fewer texts.    *)
(***************************************************************************)
AssessmentInputs ==
    { << " " >>, <<"a", "l">>, <<"s", "k", "i", "p">> }

\* The session after the answers have been submitted one by one.
RECURSIVE AfterAnswers(_, _)
AfterAnswers(st, answers) ==
    IF answers = << >> THEN st
    ELSE AfterAnswers(handle_chat_input(st, Head(answers), "ok", 1).state,
                      Tail(answers))

\* The chat sessions at the start of the technical assessment: started, and
\* name, email, experience, position and technologies answered.
AssessmentSessions ==
    { AfterAnswers(start_interview(initialize_session_state),
                   << <<"a", "l">>, <<"a", "@", "b", ".", "c">>, <<"a", "l">>,
                      <<"a", "l">>, tech_stack >>) :
        tech_stack \in { <<"a", "l">>, <<"p", "y", ",", "g", "o">> } }

\* The contexts of the engine in the stages after info collection.
AssessmentContexts ==
    { c \in CallerContexts :
        c.current_stage \in { TECHNICAL_ASSESSMENT, BEHAVIORAL_ASSESSMENT,
                              WRAP_UP, COMPLETED } }

InitAssessment ==
    /\ driver \in { "engine", "chat" }
    /\ context \in (IF driver = "engine" THEN AssessmentContexts
                     ELSE { initialize_conversation(SessionId) })
    /\ updated_context = "context"
    /\ session_state \in (IF driver = "chat" THEN AssessmentSessions
                           ELSE { initialize_session_state })
    /\ reply = << >>
    /\ raised = FALSE
    /\ last_call = NoCall
    /\ now = 0
    /\ interview_sessions = EmptyDict
    /\ question_history = << >>
    /\ http_request = NoRequest
    /\ http_response = NoResponse
    /\ created = << >>
    /\ ServicesConstructed
    /\ llm_manager = _initialize_providers(FALSE, FALSE)

AssessmentChatInput == ChatInputStep(AssessmentInputs, MaxAssessmentHistory)

AssessmentNextStage == NextStageStep(MaxAssessmentHistory)

NextAssessment ==
    \/ ProcessUserInput
    \/ AssessmentChatInput
    \/ AssessmentNextStage

SpecAssessment == InitAssessment /\ [][NextAssessment]_vars

(***************************************************************************)
(* The service objects: the API rate limiter, the security manager's rate  *)
(* limits and session tokens, and the LLM manager.  Each behaviour drives  *)
(* one of them; now is the clock in seconds, and a reading of the clock    *)
(* that moves it on clears service_call.                                   *)
(***************************************************************************)
InitServices ==
    /\ driver \in { "limiter", "rate_limit", "tokens", "llm" }
    /\ context = initialize_conversation(SessionId)
    /\ updated_context = "context"
    /\ session_state = initialize_session_state
    /\ reply = << >>
    /\ raised = FALSE
    /\ last_call = NoCall
    /\ now = 0
    /\ interview_sessions = EmptyDict
    /\ question_history = << >>
    /\ http_request = NoRequest
    /\ http_response = NoResponse
    /\ created = << >>
    /\ ServicesConstructed
    /\ llm_manager \in (IF driver = "llm"
                        THEN { _initialize_providers(g, o) : g \in BOOLEAN, o \in BOOLEAN }
                        ELSE { _initialize_providers(FALSE, FALSE) })

\* The calls granted so far, with the one a call has just been granted.
Granted(log, api_name, user_id, allowed, time) ==
    IF allowed
    THEN [log EXCEPT !.granted = Append(@, [limiter |-> LimiterOf(api_name),
                                           user_id |-> user_id, time |-> time])]
    ELSE log

\* api_rate_limiter.check_limit(api_name, user_id)
CheckLimit ==
    /\ driver = "limiter"
    /\ Len(service_log.granted) < MaxGranted
    /\ \E api_name \in ApiNames, user_id \in UserIds :
       \E out \in { check_limit(limiters, api_name, user_id, now) } :
          /\ limiters' = out.limiters
          /\ service_call' = [op |-> "check_limit", api_name |-> api_name,
                              user_id |-> user_id, result |-> out.result]
          /\ service_log' = Granted(service_log, api_name, user_id,
                                    out.result.allowed, now)
    /\ UNCHANGED << driver, now, rate_limit_data, security_events, active_sessions,
                    llm_manager >>
    /\ UNCHANGED frontvars

\* api_rate_limiter.wait_if_needed(api_name, user_id): time.sleep moves the
\* clock on.
WaitIfNeeded ==
    /\ driver = "limiter"
    /\ Len(service_log.granted) < MaxGranted
    /\ \E api_name \in ApiNames, user_id \in UserIds :
       \E out \in { wait_if_needed(limiters, api_name, user_id, now) } :
          /\ now + out.wait_time <= MaxLimiterNow
          /\ limiters' = out.limiters
          /\ now' = now + out.wait_time
          /\ service_call' = [op |-> "wait_if_needed", api_name |-> api_name,
                              user_id |-> user_id, result |-> out.result,
                              returned |-> out.returned]
          /\ service_log' = Granted(service_log, api_name, user_id,
                                    out.result.allowed, now)
    /\ UNCHANGED << driver, rate_limit_data, security_events, active_sessions,
                    llm_manager >>
    /\ UNCHANGED frontvars

\* Time passes between two calls of the rate limiter.
TickLimiter ==
    /\ driver = "limiter"
    /\ now + LimiterStep <= MaxLimiterNow
    /\ now' = now + LimiterStep
    /\ service_call' = NoServiceCall
    /\ UNCHANGED << driver, limiters, rate_limit_data, security_events,
                    active_sessions, llm_manager, service_log >>
    /\ UNCHANGED frontvars

\* security_manager.check_rate_limit(identifier, limit_type).  A behaviour
\* follows one key: once a key has been used the others are left alone.
CheckRateLimit ==
    /\ driver = "rate_limit"
    /\ \E identifier \in Identifiers, limit_type \in LimitTypes :
       /\ \A key \in RateLimitKeys \ { RateLimitKey(identifier, limit_type) } :
             rate_limit_data[key] = RateLimitInfo
       /\ \E out \in { check_rate_limit(rate_limit_data, security_events,
                                        identifier, limit_type, now) } :
             /\ rate_limit_data' = out.data
             /\ security_events' = out.events
             /\ service_call' = [op |-> "check_rate_limit", identifier |-> identifier,
                                 limit_type |-> limit_type,
                                 key |-> RateLimitKey(identifier, limit_type),
                                 allowed |-> out.allowed, info |-> out.info]
             /\ service_log' =
                   IF out.allowed
                   THEN [service_log EXCEPT
                            !.allowed[RateLimitKey(identifier, limit_type)] = @ + 1]
                   ELSE service_log
    /\ UNCHANGED << driver, now, limiters, active_sessions, llm_manager >>
    /\ UNCHANGED frontvars

\* Time passes between two calls of check_rate_limit.
TickRateLimit ==
    /\ driver = "rate_limit"
    /\ now + SecurityStep <= MaxSecurityNow
    /\ now' = now + SecurityStep
    /\ service_call' = NoServiceCall
    /\ UNCHANGED << driver, limiters, rate_limit_data, security_events,
                    active_sessions, llm_manager, service_log >>
    /\ UNCHANGED frontvars

\* security_manager.generate_session_token(user_data)
GenerateSessionToken ==
    /\ driver = "tokens"
    /\ Cardinality(DOMAIN service_log.issued) < MaxTokens
    /\ \E user_data \in UserData :
       \E token \in { Tokens[Cardinality(DOMAIN service_log.issued) + 1] } :
          /\ active_sessions' = generate_session_token(active_sessions, token,
                                                       user_data, now)
          /\ service_call' = [op |-> "generate_session_token", token |-> token]
          /\ service_log' = [service_log EXCEPT
                                !.issued = Put(@, token, [issued_at |-> now,
                                                          last_valid |-> now])]
    /\ UNCHANGED << driver, now, limiters, rate_limit_data, security_events,
                    llm_manager >>
    /\ UNCHANGED frontvars

\* security_manager.validate_session_token(token)
ValidateSessionToken ==
    /\ driver = "tokens"
    /\ \E token \in TokenInputs :
       \E out \in { validate_session_token(active_sessions, token, now) } :
          /\ out.valid => out.sessions[token].request_count <= MaxRequestCount
          /\ active_sessions' = out.sessions
          /\ service_call' = [op |-> "validate_session_token", token |-> token,
                              valid |-> out.valid, user_data |-> out.user_data]
          /\ service_log' =
                IF out.valid /\ token \in DOMAIN service_log.issued
                THEN [service_log EXCEPT !.issued[token].last_valid = now]
                ELSE IF ~out.valid /\ token \in DOMAIN active_sessions
                THEN [service_log EXCEPT !.expired = @ \cup {token}]
                ELSE service_log
    /\ UNCHANGED << driver, now, limiters, rate_limit_data, security_events,
                    llm_manager >>
    /\ UNCHANGED frontvars

\* Time passes between two calls about a session token.
TickTokens ==
    /\ driver = "tokens"
    /\ now + SessionStep <= MaxSessionNow
    /\ now' = now + SessionStep
    /\ service_call' = NoServiceCall
    /\ UNCHANGED << driver, limiters, rate_limit_data, security_events,
                    active_sessions, llm_manager, service_log >>
    /\ UNCHANGED frontvars

\* llm_manager.generate_response(messages): each call of a provider
\* succeeds or fails.
GenerateResponse ==
    /\ driver = "llm"
    /\ \E succeeds \in [1..(Len(llm_manager.fallback_order) + 1) -> BOOLEAN] :
       \E out \in { generate_response(llm_manager, succeeds) } :
          service_call' = [op |-> "generate_response", succeeds |-> succeeds,
                           called |-> out.called, response |-> out.response]
    /\ UNCHANGED << driver, now, limiters, rate_limit_data, security_events,
                    active_sessions, llm_manager, service_log >>
    /\ UNCHANGED frontvars

\* llm_manager.set_primary_provider(provider_name)
SetPrimaryProvider ==
    /\ driver = "llm"
    /\ \E provider_name \in ProviderNames :
       \E out \in { set_primary_provider(llm_manager, provider_name) } :
          /\ llm_manager' = out.manager
          /\ service_call' = [op |-> "set_primary_provider",
                              provider_name |-> provider_name,
                              returned |-> out.returned]
    /\ UNCHANGED << driver, now, limiters, rate_limit_data, security_events,
                    active_sessions, service_log >>
    /\ UNCHANGED frontvars

NextServices ==
    \/ CheckLimit
    \/ WaitIfNeeded
    \/ TickLimiter
    \/ CheckRateLimit
    \/ TickRateLimit
    \/ GenerateSessionToken
    \/ ValidateSessionToken
    \/ TickTokens
    \/ GenerateResponse
    \/ SetPrimaryProvider

SpecServices == InitServices /\ [][NextServices]_vars

(***************************************************************************)
(* Properties.                                                             *)
(***************************************************************************)
\* The order of the stages the properties speak of.
StageOrder ==
    << GREETING, INFO_COLLECTION, TECHNICAL_ASSESSMENT, BEHAVIORAL_ASSESSMENT,
       WRAP_UP, COMPLETED >>

\* The position of a stage in StageOrder; 0 for a value that is no stage of it.
StageRank(stage) ==
    IF \E i \in DOMAIN StageOrder : StageOrder[i] = stage
    THEN CHOOSE i \in DOMAIN StageOrder : StageOrder[i] = stage
    ELSE 0

StageLeq(a, b) == StageRank(a) > 0 /\ StageRank(b) > 0 /\ StageRank(a) <= StageRank(b)

Successor(a, b) == StageRank(a) > 0 /\ StageRank(b) = StageRank(a) + 1

AllFields(profile) ==
    \A i \in DOMAIN required_fields : required_fields[i] \in DOMAIN profile

\* Every field of before is in after with the same value.
Kept(before, after) ==
    \A f \in DOMAIN before : f \in DOMAIN after /\ after[f] = before[f]

\* Empty or whitespace-only.
Blank(text) == \A i \in DOMAIN text : text[i] = " "

TurnOps == { "process_user_input", "handle_chat_input" }

\* C1: for every sequence of turns on one session, the stage after a turn
\* is greater than or equal to the stage before it in StageOrder, in the
\* engine and in the chat UI.
C1_MonotonicStage ==
    [][ /\ \/ context'.current_stage = context.current_stage
           \/ StageLeq(context.current_stage, context'.current_stage)
        /\ \/ session_state'.current_stage = session_state.current_stage
           \/ StageLeq(session_state.current_stage, session_state'.current_stage)
      ]_vars

C2_Gate ==
    /\ StageRank(context.current_stage) >= StageRank(TECHNICAL_ASSESSMENT)
          => AllFields(context.candidate_data)
    /\ StageRank(session_state.current_stage) >= StageRank(TECHNICAL_ASSESSMENT)
          => AllFields(session_state.candidate_info)

C2_GateStep ==
    /\ (context.current_stage = INFO_COLLECTION
        /\ context'.current_stage # INFO_COLLECTION)
          => AllFields(context'.candidate_data)
    /\ (session_state.current_stage = INFO_COLLECTION
        /\ session_state'.current_stage # INFO_COLLECTION)
          => AllFields(session_state'.candidate_info)

\* C2: in every reachable state, a stage of TECHNICAL_ASSESSMENT or later
\* comes with all five profile fields present, and no step leaves
\* INFO_COLLECTION while one of them is absent.
C2_InfoCollectionGate == []C2_Gate /\ [][C2_GateStep]_vars

\* A chat turn has moved the session from INFO_COLLECTION to
\* TECHNICAL_ASSESSMENT.
C2_Witness ==
    /\ last_call.op = "handle_chat_input"
    /\ last_call.stage = INFO_COLLECTION
    /\ session_state.current_stage = TECHNICAL_ASSESSMENT
    /\ AllFields(session_state.candidate_info)

\* C3: once a profile field has a value, no later step changes the value or
\* removes the field.
C3_ProfileImmutable ==
    [][ /\ Kept(context.candidate_data, context'.candidate_data)
        /\ Kept(session_state.candidate_info, session_state'.candidate_info)
      ]_vars

C4_Dense ==
    \A i \in DOMAIN context.conversation_history :
        context.conversation_history[i].message_id = i

C4_NoShorter ==
    /\ Len(context'.conversation_history) >= Len(context.conversation_history)
    /\ Len(session_state'.conversation_history)
          >= Len(session_state.conversation_history)

\* C4: in every reachable state the entry at position i of the context's
\* history (counted from 1) has message_id i, and no step shortens a
\* history, the turns that end in the apology included.
C4_HistoryDense == []C4_Dense /\ [][C4_NoShorter]_vars

\* A turn has ended in the apology with both of its messages in the history.
C4_Witness ==
    /\ last_call.op = "process_user_input"
    /\ reply = ApologyReply
    /\ Len(context.conversation_history) >= 3
    /\ context.conversation_history[Len(context.conversation_history)].role = ASSISTANT
    /\ C4_Dense

\* The turn that is the step's operation was made with a blank text.
BlankTurn ==
    last_call'.op \in TurnOps /\ Blank(last_call'.user_input)

Unchanged == context' = context /\ session_state' = session_state

C6_NeverRaisesAtomic ==
    [][ last_call'.op = "process_user_input" =>
          /\ ~raised'
          /\ reply' = ApologyReply =>
                /\ context'.current_stage = context.current_stage
                /\ context'.candidate_data = context.candidate_data
                /\ context'.stage_progress = context.stage_progress
                /\ Len(context'.conversation_history)
                      <= Len(context.conversation_history) + 1
      ]_vars

\* No LLM client call of the session has succeeded.
EveryLlmCallFailed ==
    \A i \in DOMAIN session_state.conversation_history :
        ~Contains(session_state.conversation_history[i].content, << "<completion>" >>)

\* C7: with every LLM client call failing, each processed non-blank turn of
\* the chat UI ends without an unhandled exception and with a non-empty
\* assistant reply as the last message of the conversation.
C7_FallbackGuarantee ==
    (/\ last_call.op = "handle_chat_input"
     /\ ~Blank(last_call.user_input)
     /\ EveryLlmCallFailed)
    => /\ ~raised
       /\ reply # << >>
       /\ LET h == session_state.conversation_history
          IN  h # << >> /\ h[Len(h)].role = ASSISTANT /\ h[Len(h)].content # << >>

NoAt(text) == ~Contains(text, << "@" >>)

\* The profile of the session the driver runs.
Profile ==
    IF driver = "engine" THEN context.candidate_data ELSE session_state.candidate_info

\* The step's operation is a turn with email targeted and a value without '@'.
EmailTurn ==
    /\ last_call'.op \in TurnOps
    /\ last_call'.target = "email"
    /\ NoAt(last_call'.user_input)

\* So was the operation before it.
PrevEmailTurn ==
    /\ last_call.op = last_call'.op
    /\ last_call.target = "email"
    /\ NoAt(last_call.user_input)

ReaskReply(call, profile) ==
    IF call.op = "process_user_input"
    THEN (IF Blank(call.user_input) THEN ClarifyReply ELSE EmailRepromptReply)
    ELSE IF Blank(call.user_input) THEN << >>
    ELSE IF detect_skip_request(call.user_input)
    THEN << "Understood! Let me ask something different." >>
    ELSE field_questions(profile, "name")

C9_ImmediateSuccessor ==
    [][ /\ context'.current_stage # context.current_stage
           => Successor(context.current_stage, context'.current_stage)
        /\ session_state'.current_stage # session_state.current_stage
           => Successor(session_state.current_stage, session_state'.current_stage)
      ]_vars

\* C10: once the stage is COMPLETED, every further non-blank input is
\* accepted, leaves stage, profile and stage counters unchanged, and gets
\* the one fixed reply.
C10_CompletedIsTerminal ==
    [][ (/\ context.current_stage = COMPLETED
         /\ last_call'.op = "process_user_input"
         /\ ~Blank(last_call'.user_input))
        => /\ ~raised'
           /\ updated_context' = "context"
           /\ context'.current_stage = COMPLETED
           /\ context'.candidate_data = context.candidate_data
           /\ context'.stage_progress = context.stage_progress
           /\ Len(context'.conversation_history)
                 = Len(context.conversation_history) + 2
           /\ reply' = ContinueReply
      ]_vars

\* A non-blank input has been processed in a session that was COMPLETED.
C10_Witness ==
    /\ last_call.op = "process_user_input"
    /\ last_call.stage = COMPLETED
    /\ ~Blank(last_call.user_input)
    /\ context.current_stage = COMPLETED
    /\ reply = ContinueReply

\* The number of answers after which the stage's handler stops asking
\* questions of the stage.
TechnicalMax == 3

BehavioralMax == 2

\* A counter of stage_progress.
Counter(ctx, name) ==
    IF name \in DOMAIN ctx.stage_progress THEN ctx.stage_progress[name] ELSE 0

\* The step's operation is a turn with a non-blank text that did not raise.
ProcessedTurn ==
    /\ last_call'.op \in TurnOps
    /\ ~Blank(last_call'.user_input)
    /\ ~raised'

\* C11: a turn processed in TECHNICAL_ASSESSMENT when the stage's question
\* count has reached its maximum moves the session to
\* BEHAVIORAL_ASSESSMENT, and one processed in BEHAVIORAL_ASSESSMENT at its
\* maximum moves it to WRAP_UP; the chat UI counts its questions in
\* question_count.
C11_AdvancesAtMaximum ==
    [][ ProcessedTurn =>
          /\ (/\ last_call'.op = "process_user_input"
              /\ last_call'.stage = TECHNICAL_ASSESSMENT
              /\ Counter(context, "technical_questions") >= TechnicalMax)
                => context'.current_stage = BEHAVIORAL_ASSESSMENT
          /\ (/\ last_call'.op = "process_user_input"
              /\ last_call'.stage = BEHAVIORAL_ASSESSMENT
              /\ Counter(context, "behavioral_questions") >= BehavioralMax)
                => context'.current_stage = WRAP_UP
          /\ (/\ last_call'.op = "handle_chat_input"
              /\ last_call'.stage = TECHNICAL_ASSESSMENT
              /\ ~detect_skip_request(last_call'.user_input)
              /\ session_state.question_count >= TechnicalMax)
                => session_state'.current_stage = BEHAVIORAL_ASSESSMENT
      ]_vars

\* C12: a turn processed with a non-blank text while the stage is
\* INFO_COLLECTION and all five profile fields are present sets the stage
\* to TECHNICAL_ASSESSMENT.
C12_FullProfileAdvances ==
    [][ ProcessedTurn =>
          /\ (/\ last_call'.op = "process_user_input"
              /\ last_call'.stage = INFO_COLLECTION
              /\ AllFields(context.candidate_data))
                => context'.current_stage = TECHNICAL_ASSESSMENT
          /\ (/\ last_call'.op = "handle_chat_input"
              /\ last_call'.stage = INFO_COLLECTION
              /\ AllFields(session_state.candidate_info))
                => session_state'.current_stage = TECHNICAL_ASSESSMENT
      ]_vars

\* C13: a turn processed in GREETING that leaves the name present moves the
\* session to INFO_COLLECTION, and no step leaves GREETING while the name
\* is absent.
C13_GreetingAdvancesOnName ==
    [][ /\ (/\ ProcessedTurn
            /\ last_call'.op = "process_user_input"
            /\ last_call'.stage = GREETING
            /\ "name" \in DOMAIN context'.candidate_data)
              => context'.current_stage = INFO_COLLECTION
        /\ (/\ ProcessedTurn
            /\ last_call'.op = "handle_chat_input"
            /\ last_call'.stage = GREETING
            /\ "name" \in DOMAIN session_state'.candidate_info)
              => session_state'.current_stage = INFO_COLLECTION
        /\ (context.current_stage = GREETING /\ context'.current_stage # GREETING)
              => "name" \in DOMAIN context'.candidate_data
        /\ (session_state.current_stage = GREETING
            /\ session_state'.current_stage # GREETING)
              => "name" \in DOMAIN session_state'.candidate_info
      ]_vars

\* C15: every process_user_input call returns, as the updated context, the
\* session's context object with the session_id it was given, the turns on
\* which the stage advances included.
C15_ReturnsSameSession ==
    [][ last_call'.op = "process_user_input" =>
          /\ ~raised'
          /\ updated_context' = "context"
          /\ context'.session_id = context.session_id
      ]_vars

\* The fields present in a profile are the first ones of required_fields.
IsPrefix(profile) ==
    \A i \in DOMAIN required_fields :
        required_fields[i] \in DOMAIN profile
            => \A j \in 1..(i - 1) : required_fields[j] \in DOMAIN profile

C19_Prefix ==
    /\ IsPrefix(context.candidate_data)
    /\ IsPrefix(session_state.candidate_info)

C19_OneField ==
    /\ Cardinality(DOMAIN context'.candidate_data \ DOMAIN context.candidate_data) <= 1
    /\ Cardinality(DOMAIN session_state'.candidate_info
                      \ DOMAIN session_state.candidate_info) <= 1

\* C19: in every reachable state the profile fields present are a prefix of
\* name, email, experience, position, tech_stack, and no step adds more
\* than one field that was missing.
C19_FieldsInOrder == []C19_Prefix /\ [][C19_OneField]_vars

\* The chat UI has filled the five fields, the last of them in this turn.
C19_Witness ==
    /\ last_call.op = "handle_chat_input"
    /\ last_call.target = "tech_stack"
    /\ AllFields(session_state.candidate_info)

C20_Stored ==
    /\ "email" \in DOMAIN context.candidate_data
          => Contains(context.candidate_data["email"], << "@" >>)
    /\ "email" \in DOMAIN session_state.candidate_info
          => Contains(session_state.candidate_info["email"], << "@" >>)

C20_Rejected ==
    EmailTurn => "email" \notin DOMAIN Profile'

\* C20: in every reachable state an email that is present contains '@', and
\* a turn made with a text without '@' while email is the targeted field
\* leaves the email missing.
C20_EmailHasAt == []C20_Stored /\ [][C20_Rejected]_vars

\* The engine has stored an email in the turn after one it rejected.
C20_Witness ==
    /\ last_call.op = "process_user_input"
    /\ last_call.target = "email"
    /\ "email" \in DOMAIN context.candidate_data
    /\ Contains(context.candidate_data["email"], << "@" >>)
    /\ LET h == context.conversation_history
       IN  Len(h) >= 4 /\ h[Len(h) - 2].content = EmailRepromptReply

C14_Distinct ==
    \A i, j \in DOMAIN created : i # j => created[i] # created[j]

C14_RowsKept ==
    last_call'.op = "create_interview_session"
        => \A id \in DOMAIN interview_sessions :
               interview_sessions'[id] = interview_sessions[id]

\* C14: the session_ids that session creation has returned are pairwise
\* different, and a creation leaves the row of every session that exists
\* as it was.
C14_UniqueSessionIds == []C14_Distinct /\ [][C14_RowsKept]_vars

\* What the session with this id can read: its row, and the question
\* history of the AI manager.
Readable(session_id) ==
    [row |-> interview_sessions[session_id], questions |-> get_question_history]

\* C16: an operation performed for one session leaves what every other
\* session can read unchanged, the AI manager's question history included.
C16_SessionIsolation ==
    [][ \A a, b \in Range(created) :
          (/\ a # b
           /\ \/ (last_call'.op = "generate_ai_question" /\ http_request'.session_id = a)
              \/ (last_call'.op = "create_interview_session"
                  /\ http_response'.session_id = a))
          => Readable(b)' = Readable(b)
      ]_vars

\* The messages the step has added to the chat.
AddedMessages == Appended(session_state, session_state')

\* C17: when the LLM client fails during a question generation, the chat
\* message that carries the question has no error description in it, and
\* the API answers with the stage's canned question and no failure status.
C17_FailureNotSurfaced ==
    [][ /\ (last_call'.op = "handle_chat_input" /\ last_call'.llm = "fail")
              => \A i \in DOMAIN AddedMessages :
                     ~Contains(AddedMessages[i].content, << "<error>" >>)
        /\ (last_call'.op = "generate_ai_question" /\ last_call'.llm = "fail")
              => /\ http_response'.status = HTTP_200_OK
                 /\ http_response'.question
                       = fallback_questions(
                             Get(http_request'.context, "stage", "technical"),
                             Get(http_request'.context, "skills", DefaultSkills))
      ]_vars

\* C18: every call of the question generator makes the question history
\* one entry longer, whether the LLM call succeeded or the canned question
\* was returned.
C18_HistoryGrowsPerCall ==
    [][ last_call'.op = "generate_ai_question"
          => Len(question_history') = Len(question_history) + 1
      ]_vars

\* The text has no skill in it: every piece between its commas is blank.
NoSkills(text) ==
    \A i \in DOMAIN text : text[i] \in { " ", "," }

\* The stage of the session the driver runs.
Stage ==
    IF driver = "engine" THEN context.current_stage ELSE session_state.current_stage

\* The step's operation is a turn with tech_stack targeted and still
\* missing, and a non-blank text without a skill.
EmptyTechStackTurn ==
    /\ last_call'.op \in TurnOps
    /\ last_call'.target = "tech_stack"
    /\ "tech_stack" \notin DOMAIN Profile
    /\ ~Blank(last_call'.user_input)
    /\ NoSkills(last_call'.user_input)

\* C21: a turn with tech_stack targeted and a text that parses to no skill
\* leaves tech_stack unset and the stage short of TECHNICAL_ASSESSMENT, and
\* gets the same reply as the turn before it when that was such a turn too.
C21_EmptyTechStackReask ==
    [][ EmptyTechStackTurn =>
          /\ "tech_stack" \notin DOMAIN Profile'
          /\ Stage' # TECHNICAL_ASSESSMENT
          /\ (/\ last_call.op = last_call'.op
              /\ last_call.target = "tech_stack"
              /\ NoSkills(last_call.user_input)
              /\ ~Blank(last_call.user_input))
                => reply' = reply
      ]_vars

\* C22: a turn made in GREETING or INFO_COLLECTION with a non-blank text
\* while name, experience, position or tech_stack is the targeted, missing
\* field stores that field, whatever the text is.
C22_NoInputDropped ==
    [][ (/\ last_call'.op \in TurnOps
         /\ ~Blank(last_call'.user_input)
         /\ last_call'.stage \in { GREETING, INFO_COLLECTION }
         /\ last_call'.target \in { "name", "experience", "position", "tech_stack" }
         /\ last_call'.target \notin DOMAIN Profile)
        => last_call'.target \in DOMAIN Profile'
      ]_vars

LateStages == { TECHNICAL_ASSESSMENT, BEHAVIORAL_ASSESSMENT, WRAP_UP, COMPLETED }

\* C23: a turn processed in TECHNICAL_ASSESSMENT, BEHAVIORAL_ASSESSMENT,
\* WRAP_UP or COMPLETED leaves the profile as it was, and a step that
\* changes the profile is a turn processed in GREETING or INFO_COLLECTION.
C23_ProfileWrittenEarlyOnly ==
    [][ /\ (last_call'.op \in TurnOps /\ last_call'.stage \in LateStages)
              => Profile' = Profile
        /\ Profile' # Profile
              => /\ last_call'.op \in TurnOps
                 /\ last_call'.stage \in { GREETING, INFO_COLLECTION }
      ]_vars

\* The chat UI has processed an answer in the technical assessment.
C23_Witness ==
    /\ last_call.op = "handle_chat_input"
    /\ last_call.stage = TECHNICAL_ASSESSMENT
    /\ ~Blank(last_call.user_input)
    /\ ~detect_skip_request(last_call.user_input)
    /\ ~raised
    /\ reply # << >>
    /\ AllFields(session_state.candidate_info)

\* C24: a process_user_input turn in TECHNICAL_ASSESSMENT adds one to
\* technical_questions and one in BEHAVIORAL_ASSESSMENT adds one to
\* behavioral_questions; a turn changes no counter of another stage, and no
\* step lowers a counter.
C24_StageCounters ==
    [][ /\ Counter(context', "technical_questions")
              >= Counter(context, "technical_questions")
        /\ Counter(context', "behavioral_questions")
              >= Counter(context, "behavioral_questions")
        /\ (last_call'.op = "process_user_input" /\ ~Blank(last_call'.user_input))
              => /\ Counter(context', "technical_questions")
                      = Counter(context, "technical_questions")
                        + (IF last_call'.stage = TECHNICAL_ASSESSMENT THEN 1 ELSE 0)
                 /\ Counter(context', "behavioral_questions")
                      = Counter(context, "behavioral_questions")
                        + (IF last_call'.stage = BEHAVIORAL_ASSESSMENT THEN 1 ELSE 0)
      ]_vars

\* The engine has counted an answer of the technical assessment, and its
\* reply is the next canned question.
C24_Witness ==
    /\ last_call.op = "process_user_input"
    /\ last_call.stage = TECHNICAL_ASSESSMENT
    /\ Counter(context, "technical_questions") = 1
    /\ Len(context.conversation_history) = 2
    /\ Contains(reply, << "**Technical Question ", "2", ":**" >>)

RECURSIVE TrailingSkips(_, _)
TrailingSkips(history, stages) ==
    IF history = << >> THEN 0
    ELSE LET last == history[Len(history)]
             rest == SubSeq(history, 1, Len(history) - 1)
         IN  IF last.role # USER THEN TrailingSkips(rest, stages)
             ELSE IF detect_skip_request(last.content) /\ last.stage \in stages
             THEN 1 + TrailingSkips(rest, stages)
             ELSE 0

C26_Count ==
    session_state.skip_requests
        = TrailingSkips(session_state.conversation_history, InterviewStage)

C26_SkipStep ==
    (/\ last_call'.op = "handle_chat_input"
     /\ ~Blank(last_call'.user_input)
     /\ detect_skip_request(last_call'.user_input)
     /\ session_state'.current_stage # session_state.current_stage)
    => /\ session_state.current_stage = BEHAVIORAL_ASSESSMENT
       /\ session_state'.current_stage = WRAP_UP
       /\ TrailingSkips(session_state'.conversation_history,
                        { BEHAVIORAL_ASSESSMENT }) >= 3

\* C26: skip_requests is the number of skip-detected texts in a row at the
\* end of the user's messages, and a skip-detected text changes the stage
\* only from behavioral_assessment to wrap_up, as the third or later skip
\* in a row sent in behavioral_assessment.
C26_SkipCounting == []C26_Count /\ [][C26_SkipStep]_vars

\* b is what is left of a after entries were dropped from its front.
IsSuffixOf(b, a) == \E n \in 0..Len(a) : b = SubSeq(a, n + 1, Len(a))

\* The calls the log holds as granted by a limiter to a user between two
\* times.
GrantsWithin(limiter, user_id, from, to) ==
    Cardinality({ i \in DOMAIN service_log.granted :
                    /\ service_log.granted[i].limiter = limiter
                    /\ service_log.granted[i].user_id = user_id
                    /\ from <= service_log.granted[i].time
                    /\ service_log.granted[i].time <= to })

C27_Recorded ==
    \A name \in DOMAIN limiters, user_id \in UserIds :
        Len(limiters[name].calls[user_id]) <= limiters[name].max_calls

C27_Spans ==
    \A i \in DOMAIN service_log.granted :
        GrantsWithin(service_log.granted[i].limiter, service_log.granted[i].user_id,
                     service_log.granted[i].time,
                     service_log.granted[i].time
                         + limiters[service_log.granted[i].limiter].time_window)
            <= limiters[service_log.granted[i].limiter].max_calls

C27_Call ==
    service_call'.op \in { "check_limit", "wait_if_needed" }
    => /\ ~service_call'.result.allowed
            => IsSuffixOf(limiters'[LimiterOf(service_call'.api_name)]
                              .calls[service_call'.user_id],
                          limiters[LimiterOf(service_call'.api_name)]
                              .calls[service_call'.user_id])
       /\ \A name \in DOMAIN limiters, user_id \in UserIds :
             (name # LimiterOf(service_call'.api_name)
                \/ user_id # service_call'.user_id)
             => /\ limiters'[name].calls[user_id] = limiters[name].calls[user_id]
                /\ is_allowed(limiters'[name], user_id, now').allowed
                     = is_allowed(limiters[name], user_id, now').allowed

\* C27: a limiter never holds more than max_calls timestamps for a user; a
\* call that is refused records no timestamp; the calls granted to a user
\* within any time_window seconds are at most max_calls; and a call for one
\* user changes neither the timestamps of another user nor what that user's
\* next call returns.
C27_RateLimiter == []C27_Recorded /\ []C27_Spans /\ [][C27_Call]_vars

\* A user is refused by a full limiter that has granted that user a call
\* again after dropping an old one, while the other user holds a timestamp.
C27_Witness ==
    /\ service_call.op = "check_limit"
    /\ ~service_call.result.allowed
    /\ GrantsWithin(LimiterOf(service_call.api_name), service_call.user_id,
                    0, MaxLimiterNow)
         > limiters[LimiterOf(service_call.api_name)].max_calls
    /\ \E user_id \in UserIds \ { service_call.user_id } :
          limiters[LimiterOf(service_call.api_name)].calls[user_id] # << >>

Blocked(rate_info, current_time) ==
    \E blocked_until \in rate_info.blocked_until : current_time < blocked_until

\* A call of check_rate_limit: a blocked key is denied; a denied call leaves
\* total_requests alone and the queue as it was (exact) or without some of
\* its oldest entries; a denial of a key that is not blocked counts one
\* violation and blocks for 60 seconds per violation so far, 300 at most.
CheckRateLimitStep(exact) ==
    service_call'.op = "check_rate_limit"
    => LET before == rate_limit_data[service_call'.key]
           after == rate_limit_data'[service_call'.key]
       IN  /\ Blocked(before, now) => ~service_call'.allowed
           /\ ~service_call'.allowed
                => /\ after.total_requests = before.total_requests
                   /\ IF exact THEN after.requests = before.requests
                      ELSE IsSuffixOf(after.requests, before.requests)
           /\ IF ~service_call'.allowed /\ ~Blocked(before, now)
              THEN /\ after.blocked_count = before.blocked_count + 1
                   /\ after.blocked_until
                        = { now + (IF 60 * after.blocked_count < 300
                                   THEN 60 * after.blocked_count ELSE 300) }
              ELSE /\ after.blocked_count = before.blocked_count
                   /\ after.blocked_until = before.blocked_until

C28_Total ==
    \A key \in RateLimitKeys :
        rate_limit_data[key].total_requests = service_log.allowed[key]

\* C28 as stated: every call for a blocked key is denied; a denied call
\* leaves the request queue and total_requests unchanged, and total_requests
\* is the number of allowed calls; blocked_count grows by one per violation,
\* which blocks for min(300, 60 x violations so far) seconds.
C28_DeniedLeavesQueue == []C28_Total /\ [][CheckRateLimitStep(TRUE)]_vars

\* C28 amended: the same, except that a denied call appends nothing to the
\* request queue and may drop the entries older than the time window.
C28_DeniedAppendsNothing == []C28_Total /\ [][CheckRateLimitStep(FALSE)]_vars

\* A call was denied as blocked, after a second violation, and has emptied
\* the queue of its expired requests.
C28_Witness ==
    /\ service_call.op = "check_rate_limit"
    /\ service_call.info.reason = "rate_limit_blocked"
    /\ rate_limit_data[service_call.key].requests = << >>
    /\ rate_limit_data[service_call.key].total_requests >= 1
    /\ rate_limit_data[service_call.key].blocked_count >= 2

C29_Validate ==
    service_call'.op = "validate_session_token"
    => /\ service_call'.valid
            => /\ service_call'.token \in DOMAIN service_log.issued
               /\ now - service_log.issued[service_call'.token].issued_at <= 24 * 3600
               /\ now - service_log.issued[service_call'.token].last_valid <= 2 * 3600
               /\ active_sessions'[service_call'.token].last_activity = now
               /\ active_sessions'[service_call'.token].request_count
                    = active_sessions[service_call'.token].request_count + 1
       /\ service_call'.token \in service_log.expired => ~service_call'.valid
       /\ (~service_call'.valid /\ service_call'.token \in DOMAIN active_sessions)
            => /\ service_call'.token \notin DOMAIN active_sessions'
               /\ service_call'.token \in service_log'.expired

C29_Removed == \A token \in service_log.expired : token \notin DOMAIN active_sessions

\* C29: a validation succeeds only for a token that generate_session_token
\* issued at most 24 hours ago and that was issued or last validated at
\* most 2 hours ago; a success sets last_activity to the present and adds
\* one to request_count; a token rejected for expiry is removed, stays
\* removed, and fails every later validation.
C29_SessionTokens == []C29_Removed /\ [][C29_Validate]_vars

\* A token validated every two hours is rejected for its age.
C29_Witness ==
    /\ service_call.op = "validate_session_token"
    /\ ~service_call.valid
    /\ service_call.token \in service_log.expired
    /\ now - service_log.issued[service_call.token].last_valid <= 2 * 3600
    /\ now - service_log.issued[service_call.token].issued_at > 24 * 3600

NoDuplicates(seq) == \A i, j \in DOMAIN seq : i # j => seq[i] # seq[j]

Registered(manager) ==
    SelectSeq(manager.fallback_order, LAMBDA name : name \in manager.providers)

C30_Order ==
    /\ NoDuplicates(llm_manager.fallback_order)
    /\ Range(llm_manager.fallback_order) = llm_manager.providers

C30_Generate ==
    service_call.op = "generate_response"
    => /\ NoDuplicates(service_call.called)
       /\ Len(service_call.called) <= Len(Registered(llm_manager))
       /\ service_call.called
            = SubSeq(Registered(llm_manager), 1, Len(service_call.called))
       /\ service_call.response.success
            => /\ service_call.called # << >>
               /\ service_call.succeeds[Len(service_call.called)]
               /\ service_call.response.provider
                    = service_call.called[Len(service_call.called)]
               /\ \A n \in 1..(Len(service_call.called) - 1) :
                     ~service_call.succeeds[n]
       /\ ~service_call.response.success
            => \/ llm_manager.providers = {}
               \/ /\ service_call.called = Registered(llm_manager)
                  /\ \A n \in DOMAIN service_call.called : ~service_call.succeeds[n]

C30_SetPrimary ==
    service_call'.op = "set_primary_provider"
    => IF service_call'.returned
       THEN /\ Head(llm_manager'.fallback_order) = service_call'.provider_name
            /\ Range(llm_manager'.fallback_order) = Range(llm_manager.fallback_order)
            /\ Len(llm_manager'.fallback_order) = Len(llm_manager.fallback_order)
            /\ llm_manager'.providers = llm_manager.providers
       ELSE llm_manager' = llm_manager

\* C30: generate_response calls the registered providers in fallback_order,
\* none twice, stops at the first that succeeds and returns its response;
\* it returns success=False only with no provider registered or with every
\* provider called and failed; fallback_order is always a duplicate-free
\* ordering of the registered providers, and set_primary_provider puts the
\* chosen provider first and keeps the others.
C30_Fallback == []C30_Order /\ []C30_Generate /\ [][C30_SetPrimary]_vars

\* With openai made primary, openai failed and groq answered.
C30_Witness ==
    /\ service_call.op = "generate_response"
    /\ service_call.called = << "openai", "groq" >>
    /\ service_call.response.success
    /\ service_call.response.provider = "groq"

=============================================================================
